---- MODULE Spec2Model ----
(***************************************************************************)
(* A model of csharp-expr-rs: the nom parser, the binder and the evaluator  *)
(* of src/src/lib.rs and the function library of src/src/functions.rs.      *)
(*                                                                          *)
(* Texts are TLA+ strings; Char(s, i) reads one character.  Every           *)
(* specification below draws its inputs in Init and applies one operation   *)
(* of the program per action.                                               *)
(***************************************************************************)
EXTENDS Integers, Sequences, FiniteSets, TLC

VARIABLES
    pc,            \* the position of the driver: which operation has run
    like_pattern,  \* the argument of like_pattern_to_regex_pattern
    dotnet_format, \* the argument of dotnet_format_to_strptime_format
    expression,    \* the text handed to parse_expr
    parsed,        \* the tree parse_expr returned, before binding
    expr,          \* the expression tree (the handle of the C ABI)
    values,        \* the identifier map of one evaluation
    result,        \* what the last operation returned
    strong,        \* the strong count of the Rc of each callable of the handle
    local          \* the frames of the threads evaluating the handle

vars ==
    <<pc, like_pattern, dotnet_format, expression, parsed, expr, values, result, strong, local>>

(***************************************************************************)
(* Bounds of the model.                                                    *)
(***************************************************************************)
MaxPat == 4

\* The longest parameter list of a call of the logical and equality families.
MaxParams == 3

\* The most (pattern, replacement) pairs of a ReplaceEquals / ReplaceLike call.
MaxPairs == 2

\* The longest haystack of a Find call.
MaxHay == 3

(***************************************************************************)
(* Text helpers.                                                           *)
(***************************************************************************)
\* The characters a..b of s (positions from 1), cut to what s holds.
Slice(s, a, b) ==
    IF a > Len(s) THEN "" ELSE SubSeq(s, a, IF b > Len(s) THEN Len(s) ELSE b)

\* The i-th character of s, "" beyond its end.
Char(s, i) == Slice(s, i, i)

Drop(s, n) == SubSeq(s, n + 1, Len(s))

Take(s, n) == Slice(s, 1, n)

RECURSIVE Words(_, _)
Words(alphabet, n) ==
    IF n = 0 THEN {""}
    ELSE LET shorter == Words(alphabet, n - 1)
         IN  shorter \cup {w \o c : w \in shorter, c \in alphabet}

NoExpr == [e |-> "None"]

NoValues == [n \in {} |-> ""]

\* No thread evaluates the handle, and no Rc is followed.
NoStrong == <<>>

NoLocal == <<>>

NoResult == [ok |-> FALSE, none |-> TRUE]

(***************************************************************************)
(* functions.rs: like_pattern_to_regex_pattern.  previous_char is "" for    *)
(* None and the character for Some(c).                                      *)
(***************************************************************************)
ANY_MANY == ".*"

ANY_ONE == ".{1}"

IsWild(c) == c = "%" \/ c = "_"

like_step_doubled_as_wildcard(previous_char, c, res) ==
    IF previous_char = "" THEN
        IF IsWild(c) THEN [prev |-> c, res |-> res]
        ELSE [prev |-> c, res |-> res \o c]
    ELSE IF previous_char = "%" THEN
        [prev |-> c, res |-> res \o ANY_MANY \o (IF IsWild(c) THEN "" ELSE c)]
    ELSE IF previous_char = "_" THEN
        [prev |-> c, res |-> res \o ANY_ONE \o (IF IsWild(c) THEN "" ELSE c)]
    ELSE IF IsWild(c) THEN [prev |-> c, res |-> res]
    ELSE [prev |-> c, res |-> res \o c]

\* One iteration of the for loop: the match on (previous_char, c).
like_step(previous_char, c, res) ==
    IF previous_char = "" THEN
        IF IsWild(c) THEN [prev |-> c, res |-> res]
        ELSE [prev |-> c, res |-> res \o c]
    ELSE IF (previous_char = "%" /\ c = "%") \/ (previous_char = "_" /\ c = "_") THEN
        [prev |-> "", res |-> res \o c]
    ELSE IF previous_char = "%" THEN
        [prev |-> c, res |-> res \o ANY_MANY \o (IF IsWild(c) THEN "" ELSE c)]
    ELSE IF previous_char = "_" THEN
        [prev |-> c, res |-> res \o ANY_ONE \o (IF IsWild(c) THEN "" ELSE c)]
    ELSE IF IsWild(c) THEN [prev |-> c, res |-> res]
    ELSE [prev |-> c, res |-> res \o c]

RECURSIVE like_loop(_, _, _, _)
like_loop(pattern, i, previous_char, res) ==
    IF i > Len(pattern) THEN
        res \o (IF previous_char = "%" THEN ANY_MANY
                ELSE IF previous_char = "_" THEN ANY_ONE
                ELSE "") \o "$"
    ELSE LET s == like_step(previous_char, Char(pattern, i), res)
         IN  like_loop(pattern, i + 1, s.prev, s.res)

like_pattern_to_regex_pattern(pattern) == like_loop(pattern, 1, "", "^")

(***************************************************************************)
(* The expression tree, lib.rs Expr.  PreparedFunctionCall holds the name   *)
(* of the implementation the registry gave (the Rc<FunctionImpl>).          *)
(***************************************************************************)
Str(s) == [e |-> "Str", s |-> s]

Boolean(b) == [e |-> "Boolean", b |-> b]

Num(n) == [e |-> "Num", n |-> n]

Array(a) == [e |-> "Array", a |-> a]

Identifier(name) == [e |-> "Identifier", id |-> name]

FunctionCall(name, params) == [e |-> "FunctionCall", name |-> name, params |-> params]

PreparedFunctionCall(name, params, fnc) ==
    [e |-> "PreparedFunctionCall", name |-> name, params |-> params, fnc |-> fnc]

(***************************************************************************)
(* Results.  Ok and Err are the two sides of Result<_, String>; Panic is a  *)
(* Rust panic (todo!(), unwrap() on None, an index outside a slice).        *)
(***************************************************************************)
Ok(v) == [k |-> "Ok", v |-> v]

Err(msg) == [k |-> "Err", err |-> msg]

Panic(msg) == [k |-> "Panic", panic |-> msg]

IsOk(r) == r.k = "Ok"

IsErr(r) == r.k = "Err"

IsPanic(r) == r.k = "Panic"

\* params.get(i): the code counts parameters from 0.
Get(params, i) == params[i + 1]

(***************************************************************************)
(* The chrono crate, as far as the date functions use it: NaiveDateTime,    *)
(* its Display, and the with_* setters, which answer None when the date     *)
(* they would build does not exist.                                         *)
(***************************************************************************)
NaiveDateTime(year, month, day, hour, minute, second) ==
    [year |-> year, month |-> month, day |-> day,
     hour |-> hour, minute |-> minute, second |-> second]

Some(v) == [k |-> "Some", v |-> v]

None == [k |-> "None"]

\* Option::ok_or(msg)
ok_or(opt, msg) == IF opt.k = "Some" THEN [k |-> "Ok", v |-> opt.v] ELSE [k |-> "Err", err |-> msg]

\* Option::unwrap()
option_unwrap(opt) ==
    IF opt.k = "Some" THEN [k |-> "Ok", v |-> opt.v]
    ELSE [k |-> "Panic", panic |-> "called Option::unwrap() on a None value"]

IsLeapYear(year) == year % 4 = 0 /\ (year % 100 # 0 \/ year % 400 = 0)

DaysInMonth(year, month) ==
    IF month = 2 THEN (IF IsLeapYear(year) THEN 29 ELSE 28)
    ELSE IF month \in {4, 6, 9, 11} THEN 30
    ELSE 31

\* NaiveDate::from_ymd_opt and NaiveTime::from_hms_opt accept the components.
IsDateTime(d) ==
    /\ d.month \in 1..12
    /\ d.day \in 1..DaysInMonth(d.year, d.month)
    /\ d.hour \in 0..23
    /\ d.minute \in 0..59
    /\ d.second \in 0..59

Checked(d) == IF IsDateTime(d) THEN Some(d) ELSE None

with_year(d, year) == Checked([d EXCEPT !.year = year])

with_month(d, month) == Checked([d EXCEPT !.month = month])

with_month0(d, month0) == Checked([d EXCEPT !.month = month0 + 1])

with_day(d, day) == Checked([d EXCEPT !.day = day])

with_hour(d, hour) == Checked([d EXCEPT !.hour = hour])

with_minute(d, minute) == Checked([d EXCEPT !.minute = minute])

with_second(d, second) == Checked([d EXCEPT !.second = second])

Pad2(n) == IF n < 10 THEN "0" \o ToString(n) ELSE ToString(n)

Pad4(n) ==
    IF n < 10 THEN "000" \o ToString(n)
    ELSE IF n < 100 THEN "00" \o ToString(n)
    ELSE IF n < 1000 THEN "0" \o ToString(n)
    ELSE ToString(n)

\* NaiveDateTime's Display: 2020-02-29 00:00:00
DateDisplay(d) ==
    Pad4(d.year) \o "-" \o Pad2(d.month) \o "-" \o Pad2(d.day) \o " "
    \o Pad2(d.hour) \o ":" \o Pad2(d.minute) \o ":" \o Pad2(d.second)

\* NaiveDateTime's PartialOrd: the components in order.
DateOrder(d) == <<d.year, d.month, d.day, d.hour, d.minute, d.second>>

RECURSIVE LexLess(_, _, _)
LexLess(a, b, i) ==
    IF i > Len(a) THEN FALSE
    ELSE IF a[i] # b[i] THEN a[i] < b[i]
    ELSE LexLess(a, b, i + 1)

DateLess(left, right) == LexLess(DateOrder(left), DateOrder(right), 1)

(***************************************************************************)
(* crate::expressions (not under src/): the values an evaluation returns.   *)
(***************************************************************************)
ResNull == [t |-> "Null"]

ResStr(s) == [t |-> "Str", s |-> s]

ResBoolean(b) == [t |-> "Boolean", b |-> b]

ResNum(n) == [t |-> "Num", n |-> n]

ResArray(a) == [t |-> "Array", a |-> a]

ResDate(d) == [t |-> "Date", d |-> d]

is_final(res) == res.t # "Array"

\* ExprResult's PartialEq: variant-wise structural equality.
ExprResultEq(left, right) ==
    /\ left.t = right.t
    /\ left = right

\* ExprResult's Display.
ExprResultToString(res) ==
    CASE res.t = "Null" -> ""
      [] res.t = "Str" -> res.s
      [] res.t = "Boolean" -> IF res.b THEN "true" ELSE "false"
      [] res.t = "Num" -> ToString(res.n)
      [] res.t = "Date" -> DateDisplay(res.d)
      [] OTHER -> "Array"

\* Expr's Display, as lib.rs expr_to_string renders a tree.
ExprDisplay(x) ==
    CASE x.e = "Str" -> x.s
      [] x.e = "Boolean" -> IF x.b THEN "true" ELSE "false"
      [] x.e = "Num" -> ToString(x.n)
      [] x.e = "Array" -> "Array"
      [] x.e = "Identifier" -> "[" \o x.id \o "]"
      [] x.e = "FunctionCall" -> "FunctionCall"
      [] OTHER -> "PreparedFunctionCall"

(***************************************************************************)
(* Characters.                                                             *)
(***************************************************************************)
UpperChars == "ABCDEFGHIJKLMNOPQRSTUVWXYZ"

LowerChars == "abcdefghijklmnopqrstuvwxyz"

Digits == "0123456789"

IsIn(c, chars) == c # "" /\ \E i \in 1..Len(chars) : Char(chars, i) = c

IndexIn(c, chars) == CHOOSE i \in 1..Len(chars) : Char(chars, i) = c

\* The simple case folding a case-insensitive Regex applies to a literal.
Fold(c) == IF IsIn(c, UpperChars) THEN Char(LowerChars, IndexIn(c, UpperChars)) ELSE c

IsSpace(c) == c \in {" ", "\t", "\r", "\n"}

RECURSIVE FoldText(_)
FoldText(s) == IF s = "" THEN "" ELSE Fold(Char(s, 1)) \o FoldText(Drop(s, 1))

RECURSIVE TrimStart(_)
TrimStart(s) == IF s # "" /\ IsSpace(Char(s, 1)) THEN TrimStart(Drop(s, 1)) ELSE s

RECURSIVE TrimEnd(_)
TrimEnd(s) ==
    IF s # "" /\ IsSpace(Char(s, Len(s))) THEN TrimEnd(Take(s, Len(s) - 1)) ELSE s

\* str::parse::<isize>: an optional sign and at least one digit, nothing else.
RECURSIVE DigitsValue(_, _)
DigitsValue(s, acc) ==
    IF s = "" THEN acc
    ELSE DigitsValue(Drop(s, 1), 10 * acc + (IndexIn(Char(s, 1), Digits) - 1))

AllDigits(s) == s # "" /\ \A i \in 1..Len(s) : IsIn(Char(s, i), Digits)

ParseInt(s) ==
    IF AllDigits(s) THEN Ok(DigitsValue(s, 0))
    ELSE IF Len(s) >= 2 /\ Char(s, 1) = "+" /\ AllDigits(Drop(s, 1)) THEN
        Ok(DigitsValue(Drop(s, 1), 0))
    ELSE IF Len(s) >= 2 /\ Char(s, 1) = "-" /\ AllDigits(Drop(s, 1)) THEN
        Ok(0 - DigitsValue(Drop(s, 1), 0))
    ELSE Err("invalid digit found in string")

(***************************************************************************)
(* The regex crate, as far as the patterns the library builds use it:       *)
(* escape, ^, $, an escaped literal, a literal, ".*", ".{1}", and            *)
(* case-insensitive matching.                                               *)
(***************************************************************************)
RegexMeta == "\\.+*?()|[]{}^$#&-~"

RECURSIVE regex_escape(_)
regex_escape(s) ==
    IF s = "" THEN ""
    ELSE (IF IsIn(Char(s, 1), RegexMeta) THEN "\\" ELSE "") \o Char(s, 1)
         \o regex_escape(Drop(s, 1))

\* Whether the pattern from position i on matches text from position j on
\* (positions from 1), case-insensitively.
RECURSIVE regex_match_here(_, _, _, _)
regex_match_here(re, i, text, j) ==
    IF i > Len(re) THEN TRUE
    ELSE LET c == Char(re, i) IN
        IF c = "^" THEN j = 1 /\ regex_match_here(re, i + 1, text, j)
        ELSE IF c = "$" THEN j = Len(text) + 1 /\ regex_match_here(re, i + 1, text, j)
        ELSE IF c = "\\" THEN
            /\ j <= Len(text)
            /\ Fold(Char(text, j)) = Fold(Char(re, i + 1))
            /\ regex_match_here(re, i + 2, text, j + 1)
        ELSE IF c = "." /\ Char(re, i + 1) = "*" THEN
            \E k \in j..(Len(text) + 1) :
                /\ \A m \in j..(k - 1) : Char(text, m) # "\n"
                /\ regex_match_here(re, i + 2, text, k)
        ELSE IF c = "." /\ Slice(re, i + 1, i + 3) = "{1}" THEN
            /\ j <= Len(text)
            /\ Char(text, j) # "\n"
            /\ regex_match_here(re, i + 4, text, j + 1)
        ELSE
            /\ j <= Len(text)
            /\ Fold(Char(text, j)) = Fold(c)
            /\ regex_match_here(re, i + 1, text, j + 1)

\* Regex::is_match: a match starting anywhere.
regex_is_match(re, text) ==
    \E j \in 1..(Len(text) + 1) : regex_match_here(re, 1, text, j)

\* Regex::find_at(text, start), start a byte offset from 0: the start of the
\* leftmost match at or after start, -1 for None.  The search slices text at
\* start and panics when start is beyond the end of text.
regex_find_at(re, text, start) ==
    IF start > Len(text) THEN Panic("byte index out of bounds")
    ELSE LET found == {j \in start..Len(text) : regex_match_here(re, 1, text, j + 1)}
         IN  IF found = {} THEN Ok(-1)
             ELSE Ok(CHOOSE j \in found : \A m \in found : j <= m)

make_case_insensitive_search_regex(search_pattern) == regex_escape(search_pattern)

make_case_insensitive_equals_regex(search_pattern) ==
    "^" \o regex_escape(search_pattern) \o "$"

make_case_insensitive_like_regex(search_pattern) ==
    like_pattern_to_regex_pattern(regex_escape(search_pattern))

(***************************************************************************)
(* functions.rs: the coercion kernel.  expressions_exec_expr is the         *)
(* evaluator of crate::expressions, defined after the functions it calls.   *)
(***************************************************************************)
RECURSIVE expressions_exec_expr(_, _)

\* The ? of Rust on a Result: an Ok hands its value to what follows, anything
\* else is returned at once.
Bind(r, K(_)) == IF IsOk(r) THEN K(r.v) ELSE r

exec_expr_is_null(x, vals) ==
    Bind(expressions_exec_expr(x, vals), LAMBDA res : Ok(res.t = "Null"))

result_to_string(res) ==
    IF is_final(res) THEN Ok(ExprResultToString(res))
    ELSE Err("Can't change this expression to string")

exec_expr_to_string(x, vals) ==
    Bind(expressions_exec_expr(x, vals), LAMBDA res : result_to_string(res))

\* s.parse::<isize>().or_else(|_| Err(format!("'{}' is not a number", s)))
parse_isize(n, s) == IF IsOk(n) THEN n ELSE Err("'" \o s \o "' is not a number")

\* The match of exec_expr_to_int on the result of the evaluation.
result_to_int(res) ==
    IF res.t = "Num" THEN Ok(res.n)
    ELSE IF res.t = "Str" THEN parse_isize(ParseInt(res.s), res.s)
    ELSE Err("'" \o ExprResultToString(res) \o "' is not a number")

exec_expr_to_int(x, vals) ==
    Bind(expressions_exec_expr(x, vals), LAMBDA res : result_to_int(res))

\* TRUE_STRING: ^\s*(true|1)\s*$, case-insensitive.
TRUE_STRING_is_match(s) == FoldText(TrimEnd(TrimStart(s))) \in {"true", "1"}

\* The match of exec_expr_to_bool on the result of the evaluation of x.
result_to_bool(x, res) ==
    IF res.t = "Boolean" THEN Ok(res.b)
    ELSE IF res.t = "Num" THEN Ok(res.n = 1)
    ELSE IF res.t = "Str" THEN Ok(TRUE_STRING_is_match(res.s))
    ELSE Err("'" \o ExprDisplay(x) \o "' is not a boolean")

exec_expr_to_bool(x, vals) ==
    Bind(expressions_exec_expr(x, vals), LAMBDA res : result_to_bool(x, res))

results_are_equals_without_null_check(left, right) == ExprResultEq(left, right)

results_are_equals(left, right) ==
    IF left.t = "Null" THEN FALSE
    ELSE IF right.t = "Null" THEN FALSE
    ELSE ExprResultEq(left, right)

assert_exact_params_count(params, count, f_name) ==
    IF Len(params) = count THEN Ok(TRUE)
    ELSE Err("Function " \o f_name \o " should have exactly " \o ToString(count)
             \o " parameters")

assert_max_params_count(params, count, f_name) ==
    IF Len(params) <= count THEN Ok(TRUE)
    ELSE Err("Function " \o f_name \o " should have no more than " \o ToString(count)
             \o " parameters")

assert_min_params_count(params, count, f_name) ==
    IF Len(params) >= count THEN Ok(TRUE)
    ELSE Err("Function " \o f_name \o " should have " \o ToString(count)
             \o " parameters or more")

assert_between_params_count(params, count_min, count_max, f_name) ==
    IF Len(params) < count_min \/ Len(params) > count_max THEN
        Err("Function " \o f_name \o " should have between " \o ToString(count_min)
            \o " and " \o ToString(count_max) \o " parameters")
    ELSE Ok(TRUE)

(***************************************************************************)
(* functions.rs: the functions.  Each returns Ret(r, ev): r is the          *)
(* ExprFuncResult and ev lists, in order, the indexes i of the parameters   *)
(* params.get(i) it handed to the evaluator.                                *)
(***************************************************************************)
Ret(r, ev) == [r |-> r, ev |-> ev]

\* The ? of Rust inside a function: ev is the log up to and including the
\* evaluation that gave r.
Try(r, ev, K(_)) == IF IsOk(r) THEN K(r.v) ELSE Ret(r, ev)

\* IsNull, IsBlank (through exec_vec_is_null)
f_is_null(params, vals) ==
    IF Len(params) = 0 THEN Ret(Ok(ResBoolean(TRUE)), <<>>)
    ELSE IF Len(params) = 1 THEN
        Try(exec_expr_is_null(Get(params, 0), vals), <<0>>, LAMBDA res :
            Ret(Ok(ResBoolean(res)), <<0>>))
    ELSE Ret(Err("is_null only takes 0 or 1 parameter"), <<>>)

\* AreEquals
f_are_equals(params, vals) ==
    Try(assert_exact_params_count(params, 2, "AreEquals"), <<>>, LAMBDA checked :
    Try(expressions_exec_expr(Get(params, 0), vals), <<0>>, LAMBDA left :
    Try(expressions_exec_expr(Get(params, 1), vals), <<0, 1>>, LAMBDA right :
    Ret(Ok(ResBoolean(results_are_equals(left, right))), <<0, 1>>))))

RECURSIVE f_in_loop(_, _, _, _, _)
f_in_loop(params, vals, search, i, ev) ==
    IF i >= Len(params) THEN Ret(Ok(ResBoolean(FALSE)), ev)
    ELSE Try(expressions_exec_expr(Get(params, i), vals), Append(ev, i), LAMBDA p_result :
        IF results_are_equals(search, p_result) THEN
            Ret(Ok(ResBoolean(TRUE)), Append(ev, i))
        ELSE f_in_loop(params, vals, search, i + 1, Append(ev, i)))

\* In
f_in(params, vals) ==
    Try(assert_min_params_count(params, 2, "In"), <<>>, LAMBDA checked :
    Try(expressions_exec_expr(Get(params, 0), vals), <<0>>, LAMBDA search :
    f_in_loop(params, vals, search, 1, <<0>>)))

RECURSIVE f_in_like_loop(_, _, _, _, _)
f_in_like_loop(params, vals, regex, i, ev) ==
    IF i >= Len(params) THEN Ret(Ok(ResBoolean(FALSE)), ev)
    ELSE Try(exec_expr_to_string(Get(params, i), vals), Append(ev, i), LAMBDA text :
        IF regex_is_match(regex, text) THEN Ret(Ok(ResBoolean(TRUE)), Append(ev, i))
        ELSE f_in_like_loop(params, vals, regex, i + 1, Append(ev, i)))

\* InLike
f_in_like(params, vals) ==
    Try(assert_min_params_count(params, 2, "InLike"), <<>>, LAMBDA checked :
    Try(exec_expr_to_string(Get(params, 0), vals), <<0>>, LAMBDA search :
    f_in_like_loop(params, vals, make_case_insensitive_like_regex(search), 1, <<0>>)))

\* IsLike, Like
f_is_like(params, vals) ==
    Try(assert_exact_params_count(params, 2, "IsLike"), <<>>, LAMBDA checked :
    Try(exec_expr_to_string(Get(params, 0), vals), <<0>>, LAMBDA text :
    Try(exec_expr_to_string(Get(params, 1), vals), <<0, 1>>, LAMBDA search :
    Ret(Ok(ResBoolean(regex_is_match(make_case_insensitive_like_regex(search), text))),
        <<0, 1>>))))

\* FirstNotNull, FirstNotEmpty: the loop from parameter i on.
RECURSIVE f_first_not_null_loop(_, _, _, _)
f_first_not_null_loop(params, vals, i, ev) ==
    IF i >= Len(params) THEN Ret(Ok(ResNull), ev)
    ELSE Try(expressions_exec_expr(Get(params, i), vals), Append(ev, i), LAMBDA p_result :
        IF p_result.t = "Null" THEN
            f_first_not_null_loop(params, vals, i + 1, Append(ev, i))
        ELSE Ret(Ok(p_result), Append(ev, i)))

f_first_not_null(params, vals) == f_first_not_null_loop(params, vals, 0, <<>>)

RECURSIVE f_concat_loop(_, _, _, _, _)
f_concat_loop(params, vals, i, acc, ev) ==
    IF i >= Len(params) THEN Ret(Ok(ResStr(acc)), ev)
    ELSE Try(exec_expr_to_string(Get(params, i), vals), Append(ev, i), LAMBDA s :
        f_concat_loop(params, vals, i + 1, acc \o s, Append(ev, i)))

\* Concatenate, Concat
f_concat(params, vals) == f_concat_loop(params, vals, 0, "", <<>>)

\* Exact
f_exact(params, vals) ==
    Try(assert_exact_params_count(params, 2, "Exact"), <<>>, LAMBDA checked :
    Try(exec_expr_to_string(Get(params, 0), vals), <<0>>, LAMBDA left :
    Try(exec_expr_to_string(Get(params, 1), vals), <<0, 1>>, LAMBDA right :
    Ret(Ok(ResBoolean(left = right)), <<0, 1>>))))

\* Find: start_num, 0 without a third parameter and max(start - 1, 0) with one.
find_start_num(params, vals) ==
    IF Len(params) <= 2 THEN Ok(0)
    ELSE Bind(exec_expr_to_int(Get(params, 2), vals), LAMBDA start :
        Ok(IF start - 1 > 0 THEN start - 1 ELSE 0))

\* Find: the log once start_num is known.
find_start_log(params) == IF Len(params) <= 2 THEN <<>> ELSE <<2>>

\* Find
f_find(params, vals) ==
    Try(assert_between_params_count(params, 2, 3, "Find"), <<>>, LAMBDA checked :
    Try(find_start_num(params, vals), find_start_log(params), LAMBDA start_num :
    Try(exec_expr_to_string(Get(params, 0), vals), find_start_log(params) \o <<0>>,
        LAMBDA find_text :
    Try(exec_expr_to_string(Get(params, 1), vals), find_start_log(params) \o <<0, 1>>,
        LAMBDA within_text :
    Try(regex_find_at(make_case_insensitive_search_regex(find_text), within_text, start_num),
        find_start_log(params) \o <<0, 1>>, LAMBDA position :
    Ret(Ok(ResNum(IF position < 0 THEN 0 ELSE position + 1)),
        find_start_log(params) \o <<0, 1>>))))))

make_replace_regex(kind, pattern) ==
    IF kind = "like" THEN make_case_insensitive_like_regex(pattern)
    ELSE make_case_insensitive_equals_regex(pattern)

\* ReplaceEquals, ReplaceLike: the loop over the (pattern, replacement) pairs
\* from parameter i on, and the default after it.
RECURSIVE f_replace_loop(_, _, _, _, _, _)
f_replace_loop(kind, params, vals, text, i, ev) ==
    IF i + 1 >= Len(params) THEN
        Ret(expressions_exec_expr(Get(params, 1), vals), Append(ev, 1))
    ELSE Try(exec_expr_to_string(Get(params, i), vals), Append(ev, i), LAMBDA pattern :
        IF regex_is_match(make_replace_regex(kind, pattern), text) THEN
            Ret(expressions_exec_expr(Get(params, i + 1), vals),
                Append(Append(ev, i), i + 1))
        ELSE f_replace_loop(kind, params, vals, text, i + 2, Append(ev, i)))

f_replace_default_first(kind, f_name, params, vals) ==
    Try(assert_min_params_count(params, 4, f_name), <<>>, LAMBDA checked :
    IF Len(params) % 2 = 1 THEN
        Ret(Err("Remplacement key/value parameters must come 2 by 2"), <<>>)
    ELSE Try(exec_expr_to_string(Get(params, 0), vals), <<0>>, LAMBDA text :
         Try(expressions_exec_expr(Get(params, 1), vals), <<0, 1>>, LAMBDA default :
         f_replace_loop(kind, params, vals, text, 2, <<0, 1>>))))

f_replace(kind, f_name, params, vals) ==
    Try(assert_min_params_count(params, 4, f_name), <<>>, LAMBDA checked :
    IF Len(params) % 2 = 1 THEN
        Ret(Err("Remplacement key/value parameters must come 2 by 2"), <<>>)
    ELSE Try(exec_expr_to_string(Get(params, 0), vals), <<0>>, LAMBDA text :
         f_replace_loop(kind, params, vals, text, 2, <<0>>)))

\* ReplaceEquals
f_replace_equals(params, vals) == f_replace("equals", "ReplaceEquals", params, vals)

\* ReplaceLike
f_replace_like(params, vals) == f_replace("like", "ReplaceLike", params, vals)

RECURSIVE f_bool_loop_eager(_, _, _, _, _)
f_bool_loop_eager(stop_at, params, vals, i, ev) ==
    IF i >= Len(params) THEN Ret(Ok(ResBoolean(~stop_at)), ev)
    ELSE Try(exec_expr_to_bool(Get(params, i), vals), Append(ev, i), LAMBDA b :
         Try(f_bool_loop_eager(stop_at, params, vals, i + 1, Append(ev, i)).r,
             Append(ev, i + 1), LAMBDA rest :
         Ret(Ok(ResBoolean(IF b = stop_at THEN stop_at ELSE rest.b)), Append(ev, i + 1))))

\* And (stop_at = FALSE) and Or (stop_at = TRUE): the for loop from parameter
\* i on, which returns at the first parameter that coerces to stop_at.
RECURSIVE f_bool_loop(_, _, _, _, _)
f_bool_loop(stop_at, params, vals, i, ev) ==
    IF i >= Len(params) THEN Ret(Ok(ResBoolean(~stop_at)), ev)
    ELSE Try(exec_expr_to_bool(Get(params, i), vals), Append(ev, i), LAMBDA b :
        IF b = stop_at THEN Ret(Ok(ResBoolean(stop_at)), Append(ev, i))
        ELSE f_bool_loop(stop_at, params, vals, i + 1, Append(ev, i)))

\* And
f_and(params, vals) == f_bool_loop(FALSE, params, vals, 0, <<>>)

\* Or
f_or(params, vals) == f_bool_loop(TRUE, params, vals, 0, <<>>)

\* Not
f_not(params, vals) ==
    Try(assert_exact_params_count(params, 1, "Not"), <<>>, LAMBDA checked :
    Try(exec_expr_to_bool(Get(params, 0), vals), <<0>>, LAMBDA b :
    Ret(Ok(ResBoolean(~b)), <<0>>)))

\* Xor
f_xor(params, vals) ==
    Try(assert_exact_params_count(params, 2, "Xor"), <<>>, LAMBDA checked :
    Try(exec_expr_to_bool(Get(params, 0), vals), <<0>>, LAMBDA p0 :
    Try(exec_expr_to_bool(Get(params, 1), vals), <<0, 1>>, LAMBDA p1 :
    Ret(Ok(ResBoolean(p0 # p1)), <<0, 1>>))))

\* The parameter Iif goes on with.
iif_branch(test) == IF test THEN 1 ELSE 2

\* Iif, If
f_iif(params, vals) ==
    Try(assert_exact_params_count(params, 3, "Iif"), <<>>, LAMBDA checked :
    Try(exec_expr_to_bool(Get(params, 0), vals), <<0>>, LAMBDA test :
    Ret(expressions_exec_expr(Get(params, iif_branch(test)), vals),
        <<0, iif_branch(test)>>)))

\* Capitalize (through single_string_func): the closure is todo!().
f_capitalize(params, vals) ==
    Try(assert_exact_params_count(params, 1, "Capitalize"), <<>>, LAMBDA checked :
    Try(exec_expr_to_string(Get(params, 0), vals), <<0>>, LAMBDA s :
    Ret(Panic("not yet implemented"), <<0>>)))

(***************************************************************************)
(* functions.rs: the date functions.                                        *)
(***************************************************************************)
\* The two digits, or four, at position a of text as a number; -1 when they
\* are not digits.
DigitsAt(text, a, n) ==
    IF AllDigits(Slice(text, a, a + n - 1)) /\ Len(Slice(text, a, a + n - 1)) = n
    THEN DigitsValue(Slice(text, a, a + n - 1), 0)
    ELSE -1

\* text.parse::<DateTime<Utc>>().map_err(|e| format!("{}", e))?.naive_utc(),
\* for the texts of the shape YYYY-MM-DDThh:mm:ssZ; any other text is taken
\* as one the parser refuses.
parse_date_time_utc(text) ==
    IF \/ Len(text) # 20
       \/ <<Char(text, 5), Char(text, 8), Char(text, 11), Char(text, 14), Char(text, 17),
            Char(text, 20)>> # <<"-", "-", "T", ":", ":", "Z">>
       \/ \E a \in {6, 9, 12, 15, 18} : DigitsAt(text, a, 2) < 0
       \/ DigitsAt(text, 1, 4) < 0
    THEN Err("input contains invalid characters")
    ELSE ok_or(Checked(NaiveDateTime(DigitsAt(text, 1, 4), DigitsAt(text, 6, 2),
                                     DigitsAt(text, 9, 2), DigitsAt(text, 12, 2),
                                     DigitsAt(text, 15, 2), DigitsAt(text, 18, 2))),
               "input is out of range")

\* The match of exec_expr_to_date on the result of the evaluation.
result_to_date(res) ==
    IF res.t = "Date" THEN Ok(res.d)
    ELSE Bind(result_to_string(res), LAMBDA text : parse_date_time_utc(text))

\* if default_x { date_time = date_time.with_x(1).unwrap(); }
with_default(flag, date_time, set) == IF flag THEN option_unwrap(set) ELSE Ok(date_time)

\* exec_expr_to_date, from the result of the evaluation on; defaults are
\* default_year .. default_second in order.
result_to_date_with_defaults(res, defaults) ==
    Bind(result_to_date(res), LAMBDA d0 :
    Bind(with_default(defaults[1], d0, with_year(d0, 1)), LAMBDA d1 :
    Bind(with_default(defaults[2], d1, with_month(d1, 1)), LAMBDA d2 :
    Bind(with_default(defaults[3], d2, with_day(d2, 1)), LAMBDA d3 :
    Bind(with_default(defaults[4], d3, with_hour(d3, 1)), LAMBDA d4 :
    Bind(with_default(defaults[5], d4, with_minute(d4, 1)), LAMBDA d5 :
         with_default(defaults[6], d5, with_second(d5, 1))))))))

exec_expr_to_date(x, vals, defaults) ==
    Bind(expressions_exec_expr(x, vals), LAMBDA res :
        result_to_date_with_defaults(res, defaults))

exec_expr_to_date_no_defaults(x, vals) ==
    exec_expr_to_date(x, vals, <<FALSE, FALSE, FALSE, FALSE, FALSE, FALSE>>)

\* The closures of f_date_equals .. f_date_greater_or_equals.
date_compare(op, d1, d2) ==
    CASE op = "==" -> d1 = d2
      [] op = "!=" -> d1 # d2
      [] op = "<" -> DateLess(d1, d2)
      [] op = "<=" -> ~DateLess(d2, d1)
      [] op = ">" -> DateLess(d2, d1)
      [] op = ">=" -> ~DateLess(d1, d2)

\* The order in which two_dates_func evaluates its parameters: the flags
\* default_year .. default_second, then the left date, then the right one.
two_dates_order == <<2, 3, 4, 5, 6, 7, 0, 1>>

\* two_dates_func after the check of the arity, from the k-th evaluation on:
\*   params.get(i).map_or(Ok(false), |expr| exec_expr_to_bool(expr, values))?
\* for i = 2 .. 7, then exec_expr_to_date(params.get(i).unwrap(), values,
\* default_year, ..)? for i = 0, 1, then func(date_left, date_right).
RECURSIVE two_dates_loop(_, _, _, _, _, _, _)
two_dates_loop(params, vals, op, k, defaults, dates, ev) ==
    IF k > Len(two_dates_order) THEN
        Ret(Ok(ResBoolean(date_compare(op, dates[1], dates[2]))), ev)
    ELSE IF two_dates_order[k] >= Len(params) THEN
        two_dates_loop(params, vals, op, k + 1, Append(defaults, FALSE), dates, ev)
    ELSE
        Try(expressions_exec_expr(Get(params, two_dates_order[k]), vals),
            Append(ev, two_dates_order[k]), LAMBDA res :
        IF two_dates_order[k] >= 2 THEN
            Try(result_to_bool(Get(params, two_dates_order[k]), res),
                Append(ev, two_dates_order[k]), LAMBDA b :
            two_dates_loop(params, vals, op, k + 1, Append(defaults, b), dates,
                           Append(ev, two_dates_order[k])))
        ELSE
            Try(result_to_date_with_defaults(res, defaults),
                Append(ev, two_dates_order[k]), LAMBDA date :
            two_dates_loop(params, vals, op, k + 1, defaults, Append(dates, date),
                           Append(ev, two_dates_order[k]))))

two_dates_func(params, vals, f_name, op) ==
    Try(assert_between_params_count(params, 2, 8, f_name), <<>>, LAMBDA checked :
        two_dates_loop(params, vals, op, 1, <<>>, <<>>, <<>>))

\* f_date_equals .. f_date_greater_or_equals: the name and the closure each
\* of them hands to two_dates_func.
two_dates_functions ==
    ("f_date_equals" :> <<"DateEquals", "==">>)
    @@ ("f_date_not_equals" :> <<"DateNotEquals", "!=">>)
    @@ ("f_date_lower" :> <<"DateLower", "<">>)
    @@ ("f_date_lower_or_equals" :> <<"DateLowerOrEquals", "<=">>)
    @@ ("f_date_greater" :> <<"DateGreater", ">">>)
    @@ ("f_date_greater_or_equals" :> <<"DateGreaterOrEquals", ">=">>)

f_date_compare(fnc, params, vals) ==
    two_dates_func(params, vals, two_dates_functions[fnc][1], two_dates_functions[fnc][2])

\* The / and % of Rust on i32: the quotient is rounded towards zero and the
\* remainder has the sign of the dividend.
RustDiv(a, b) == IF a >= 0 THEN a \div b ELSE 0 - ((0 - a) \div b)

RustRem(a, b) == a - b * RustDiv(a, b)

\* f_date_add_months, once month0 is known: the year is set first, then the
\* month.
date_add_months(date_time, years_to_add, new_month0) ==
    Bind(ok_or(with_year(date_time, date_time.year + years_to_add),
               "Couldn't add " \o ToString(years_to_add) \o " years to the date "
               \o DateDisplay(date_time)), LAMBDA new_date_time :
    Bind(ok_or(with_month0(new_date_time, new_month0),
               "Couldn't set " \o ToString(new_month0 + 1) \o " as month to the date "
               \o DateDisplay(new_date_time)), LAMBDA set :
         Ok(ResDate(set))))

\* if new_month0 < 0 { new_month0 = new_month0 + 12; years_to_add = years_to_add - 1; }
date_add_month0(date_time, month0) ==
    IF RustRem(month0, 12) < 0
    THEN date_add_months(date_time, RustDiv(month0, 12) - 1, RustRem(month0, 12) + 12)
    ELSE date_add_months(date_time, RustDiv(month0, 12), RustRem(month0, 12))

\* DateAddMonths
f_date_add_months(params, vals) ==
    Try(assert_exact_params_count(params, 2, "DateAddMonths"), <<>>, LAMBDA checked :
    Try(exec_expr_to_date_no_defaults(Get(params, 0), vals), <<0>>, LAMBDA date_time :
    Try(exec_expr_to_int(Get(params, 1), vals), <<0, 1>>, LAMBDA months :
    Ret(date_add_month0(date_time, (date_time.month - 1) + months), <<0, 1>>))))

(***************************************************************************)
(* str: a String holds UTF-8 and str::len and the range index count bytes.  *)
(***************************************************************************)
\* The characters of the model's strings that take two bytes in UTF-8.
TwoByteChars == "éü"

len_utf8(c) == IF IsIn(c, TwoByteChars) THEN 2 ELSE 1

RECURSIVE str_len(_)
str_len(s) == IF s = "" THEN 0 ELSE len_utf8(Char(s, 1)) + str_len(Drop(s, 1))

\* The byte offsets at which a character of s starts, and the end of s.
is_char_boundary(s, index) == \E n \in 0..Len(s) : str_len(Take(s, n)) = index

CharsBefore(s, index) == CHOOSE n \in 0..Len(s) : str_len(Take(s, n)) = index

\* &s[begin..end]
str_index(s, begin, end) ==
    IF begin > end THEN Panic("begin <= end when slicing")
    ELSE IF end > str_len(s) THEN Panic("byte index is out of bounds")
    ELSE IF ~is_char_boundary(s, begin) \/ ~is_char_boundary(s, end) THEN
        Panic("byte index is not a char boundary")
    ELSE Ok(SubSeq(s, CharsBefore(s, begin) + 1, CharsBefore(s, end)))

\* An arithmetic overflow: the panic of a build with overflow checks, and
\* what a build without them goes on to return.
Overflow(checked, wrapped) == [k |-> "Overflow", checked |-> checked, wrapped |-> wrapped]

Profiles == {"debug", "release"}

\* The outcome of a call in a build of the given profile.
Built(ret, profile) ==
    IF ret.r.k = "Overflow"
    THEN Ret(IF profile = "debug" THEN ret.r.checked ELSE ret.r.wrapped, ret.ev)
    ELSE ret

Min(a, b) == IF a < b THEN a ELSE b

Max(a, b) == IF a > b THEN a ELSE b

OkStr(r) == Bind(r, LAMBDA s : Ok(ResStr(s)))

\* Left, after its parameters: size is exec_expr_to_int(..)?.max(0) as usize.
f_left(s, size) ==
    IF size = 0 THEN Ok(ResStr(""))
    ELSE IF size >= str_len(s) THEN Ok(ResStr(s))
    ELSE OkStr(str_index(s, 0, size))

\* Right
f_right(s, size) ==
    IF size = 0 THEN Ok(ResStr(""))
    ELSE IF size >= str_len(s) THEN Ok(ResStr(s))
    ELSE OkStr(str_index(s, str_len(s) - size, str_len(s)))

\* Mid: false_position is exec_expr_to_int(..)?.max(1).min(s.len() as isize)
\* and position is (false_position - 1) as usize, which for the empty string
\* is usize::MAX, so that position + size overflows.
f_mid(s, false_position, size) ==
    IF size = 0 THEN Ok(ResStr(""))
    ELSE IF false_position - 1 = 0 /\ size >= str_len(s) THEN Ok(ResStr(s))
    ELSE IF false_position - 1 < 0 THEN
        Overflow(Panic("attempt to add with overflow"), Panic("begin <= end when slicing"))
    ELSE OkStr(str_index(s, false_position - 1, Min(false_position - 1 + size, str_len(s))))

(***************************************************************************)
(* ExprDecimal is f64.  A number of the model is an integer count of        *)
(* 10^-DecimalPlaces: the texts the model parses hold no exponent, inf or   *)
(* nan and at most DecimalPlaces digits after the point.                    *)
(***************************************************************************)
DecimalPlaces == 4

Unit == 10 ^ DecimalPlaces

Abs(n) == IF n < 0 THEN 0 - n ELSE n

\* A Num holds an integer or, for a literal with a fraction, its text.
IsText(n) == Char(ToString(n), 1) = "\""

Unsigned(s) == IF s # "" /\ Char(s, 1) \in {"+", "-"} THEN Drop(s, 1) ELSE s

PointAt(s) ==
    IF \E i \in 1..Len(s) : Char(s, i) = "."
    THEN CHOOSE i \in 1..Len(s) : Char(s, i) = "." /\ \A j \in 1..(i - 1) : Char(s, j) # "."
    ELSE Len(s) + 1

IntPart(s) == Take(s, PointAt(s) - 1)

FracPart(s) == Drop(s, PointAt(s))

OnlyDigits(s) == \A i \in 1..Len(s) : IsIn(Char(s, i), Digits)

RECURSIVE PadRight(_, _)
PadRight(s, n) == IF Len(s) >= n THEN s ELSE PadRight(s \o "0", n)

RECURSIVE PadLeft(_, _)
PadLeft(s, n) == IF Len(s) >= n THEN s ELSE PadLeft("0" \o s, n)

Magnitude(s) ==
    DigitsValue(IntPart(s), 0) * Unit + DigitsValue(PadRight(FracPart(s), DecimalPlaces), 0)

\* str::parse::<f64>: an optional sign, digits, an optional point and digits,
\* at least one digit in all.
parse_f64(s) ==
    IF /\ OnlyDigits(IntPart(Unsigned(s)))
       /\ OnlyDigits(FracPart(Unsigned(s)))
       /\ Len(IntPart(Unsigned(s))) + Len(FracPart(Unsigned(s))) > 0
       /\ Len(FracPart(Unsigned(s))) <= DecimalPlaces
    THEN Ok(IF Char(s, 1) = "-" THEN 0 - Magnitude(Unsigned(s)) ELSE Magnitude(Unsigned(s)))
    ELSE Err("invalid float literal")

num_value(n) == IF IsText(n) THEN parse_f64(n).v ELSE n * Unit

\* The nearest integer to a / d for a >= 0; an exact tie goes to the even one.
HalfEven(a, d) ==
    IF 2 * (a % d) > d \/ (2 * (a % d) = d /\ (a \div d) % 2 = 1)
    THEN (a \div d) + 1
    ELSE a \div d

\* |number| in units of 10^-prec, as the formatting of a float rounds it.
Rounded(magnitude, prec) ==
    IF prec >= DecimalPlaces THEN magnitude * 10 ^ (prec - DecimalPlaces)
    ELSE HalfEven(magnitude, 10 ^ (DecimalPlaces - prec))

FixedDigits(q, prec) ==
    ToString(q \div 10 ^ prec)
    \o (IF prec = 0 THEN "" ELSE "." \o PadLeft(ToString(q % 10 ^ prec), prec))

\* format!("{num:.prec$}", num = number, prec = prec)
format_fixed(number, prec) ==
    (IF number < 0 THEN "-" ELSE "") \o FixedDigits(Rounded(Abs(number), prec), prec)

\* num_format: the digits in groups of three, from the right.
RECURSIVE Grouped(_)
Grouped(digits) ==
    IF Len(digits) <= 3 THEN digits
    ELSE Grouped(Take(digits, Len(digits) - 3)) \o "," \o Drop(digits, Len(digits) - 3)

\* isize::to_formatted_string(&Locale::en)
to_formatted_string(n) ==
    IF n < 0 THEN "-" \o Grouped(ToString(0 - n)) ELSE Grouped(ToString(n))

\* Fixed with no_commas = false: the integer part and the fraction are
\* formatted apart; the fraction's text is cut at its point.
fixed_with_commas(int, fract) ==
    IF PointAt(fract) <= Len(fract) THEN int \o "." \o FracPart(fract) ELSE int

\* Fixed, after its parameters.
f_fixed(number, decimals, no_commas) ==
    IF no_commas THEN Ok(ResStr(format_fixed(number, decimals)))
    ELSE Ok(ResStr(fixed_with_commas(to_formatted_string(RustDiv(number, Unit)),
                                     format_fixed(RustRem(number, Unit), decimals))))

(***************************************************************************)
(* Unsigned integers beyond 2^31, as their base-256 digits,                 *)
(* the lowest first and no zero last.                                       *)
(***************************************************************************)
Limb == 2 ^ 8

RECURSIVE big_from(_)
big_from(n) == IF n = 0 THEN <<>> ELSE <<n % Limb>> \o big_from(n \div Limb)

\* a * m + carry
RECURSIVE big_mul_small(_, _, _)
big_mul_small(a, m, carry) ==
    IF a = <<>> THEN big_from(carry)
    ELSE <<(a[1] * m + carry) % Limb>> \o big_mul_small(Tail(a), m, (a[1] * m + carry) \div Limb)

RECURSIVE big_trim(_)
big_trim(a) ==
    IF a # <<>> /\ a[Len(a)] = 0 THEN big_trim(SubSeq(a, 1, Len(a) - 1)) ELSE a

big_step(high, limb, m) ==
    [q |-> <<(high.r * Limb + limb) \div m>> \o high.q, r |-> (high.r * Limb + limb) % m]

\* The quotient and the remainder of a by m.
RECURSIVE big_divmod(_, _)
big_divmod(a, m) ==
    IF a = <<>> THEN [q |-> <<>>, r |-> 0]
    ELSE big_step(big_divmod(Tail(a), m), a[1], m)

big_times(a, m) == big_trim(big_mul_small(a, m, 0))

RECURSIVE big_pow10(_)
big_pow10(exp) == IF exp = 0 THEN <<1>> ELSE big_times(big_pow10(exp - 1), 10)

\* The low 32 bits.
wrapping_u32(a) == big_trim(SubSeq(a, 1, Min(4, Len(a))))

\* (num * mult_div).round() / mult_div: f64::round takes a half away from
\* zero.  The quotient is kept as the two integers it divides.
scale_and_round(num, mult_div) ==
    [neg |-> num < 0,
     rounded |-> big_trim(big_divmod(big_mul_small(mult_div, 2 * Abs(num), Unit), 2 * Unit).q),
     mult_div |-> mult_div]

\* Round, after its parameters: (10 as u32).pow(digits) is computed before
\* catch_unwind.
f_round(num, digits) ==
    IF Len(big_pow10(digits)) <= 4
    THEN Ok(ResNum(scale_and_round(num, big_pow10(digits))))
    ELSE Overflow(Panic("attempt to multiply with overflow"),
                  Ok(ResNum(scale_and_round(num, wrapping_u32(big_pow10(digits))))))

(***************************************************************************)
(* functions.rs: Left, Right, Mid, Fixed and Round evaluate and coerce      *)
(* their parameters in the order of their indexes.                          *)
(***************************************************************************)
coerced_functions ==
    ("f_left" :> [name |-> "Left", kinds |-> <<"string", "int">>])
    @@ ("f_right" :> [name |-> "Right", kinds |-> <<"string", "int">>])
    @@ ("f_mid" :> [name |-> "Mid", kinds |-> <<"string", "int", "int">>])
    @@ ("f_fixed" :> [name |-> "Fixed", kinds |-> <<"num", "int", "bool">>])
    @@ ("f_round" :> [name |-> "Round", kinds |-> <<"num", "int">>])

\* The match of exec_expr_to_num on the result: a result that is not a Num
\* goes through exec_expr_to_string.
result_to_num(res) ==
    IF res.t = "Num" THEN Ok(num_value(res.n))
    ELSE Bind(result_to_string(res), LAMBDA s :
        IF IsOk(parse_f64(s)) THEN parse_f64(s) ELSE Err("'" \o s \o "' is not a number"))

coerce(kind, x, res) ==
    CASE kind = "string" -> result_to_string(res)
      [] kind = "int" -> result_to_int(res)
      [] kind = "bool" -> result_to_bool(x, res)
      [] kind = "num" -> result_to_num(res)

\* exec_expr_to_num evaluates a parameter that is not a Num a second time.
EvaluationsOf(ev, kind, res, k) ==
    IF kind = "num" /\ res.t # "Num" THEN Append(Append(ev, k), k) ELSE Append(ev, k)

\* The body of each function on its coerced parameters; Fixed's decimals
\* default to 2 and its no_commas to true.
coerced_body(fnc, args) ==
    CASE fnc = "f_left" -> f_left(args[1], Max(args[2], 0))
      [] fnc = "f_right" -> f_right(args[1], Max(args[2], 0))
      [] fnc = "f_mid" -> f_mid(args[1], Min(Max(args[2], 1), str_len(args[1])), Max(args[3], 0))
      [] fnc = "f_fixed" -> f_fixed(args[1], IF Len(args) >= 2 THEN Max(args[2], 0) ELSE 2,
                                  IF Len(args) >= 3 THEN args[3] ELSE TRUE)
      [] fnc = "f_round" -> f_round(args[1], Max(args[2], 0))

RECURSIVE coerced_loop(_, _, _, _, _, _)
coerced_loop(fnc, params, vals, k, args, ev) ==
    IF k >= Len(params) THEN Ret(coerced_body(fnc, args), ev)
    ELSE
        Try(expressions_exec_expr(Get(params, k), vals), Append(ev, k), LAMBDA res :
        Try(coerce(coerced_functions[fnc].kinds[k + 1], Get(params, k), res),
            EvaluationsOf(ev, coerced_functions[fnc].kinds[k + 1], res, k), LAMBDA v :
        coerced_loop(fnc, params, vals, k + 1, Append(args, v),
                     EvaluationsOf(ev, coerced_functions[fnc].kinds[k + 1], res, k))))

\* f_left, f_right, f_mid, f_fixed, f_round
f_coerced(fnc, params, vals) ==
    Try(IF fnc = "f_fixed" THEN assert_between_params_count(params, 1, 3, "Fixed")
        ELSE assert_exact_params_count(params, Len(coerced_functions[fnc].kinds),
                                       coerced_functions[fnc].name),
        <<>>, LAMBDA checked : coerced_loop(fnc, params, vals, 0, <<>>, <<>>))

(***************************************************************************)
(* functions.rs: get_functions, the registry, for the functions modelled.   *)
(***************************************************************************)
get_functions ==
    ("IsNull" :> "f_is_null") @@ ("IsBlank" :> "f_is_null")
    @@ ("AreEquals" :> "f_are_equals") @@ ("In" :> "f_in")
    @@ ("InLike" :> "f_in_like") @@ ("IsLike" :> "f_is_like") @@ ("Like" :> "f_is_like")
    @@ ("FirstNotNull" :> "f_first_not_null") @@ ("FirstNotEmpty" :> "f_first_not_null")
    @@ ("Concatenate" :> "f_concat") @@ ("Concat" :> "f_concat")
    @@ ("Exact" :> "f_exact") @@ ("Find" :> "f_find")
    @@ ("Capitalize" :> "f_capitalize")
    @@ ("ReplaceEquals" :> "f_replace_equals") @@ ("ReplaceLike" :> "f_replace_like")
    @@ ("And" :> "f_and") @@ ("Or" :> "f_or") @@ ("Not" :> "f_not") @@ ("Xor" :> "f_xor")
    @@ ("Iif" :> "f_iif") @@ ("If" :> "f_iif")
    @@ ("DateEquals" :> "f_date_equals") @@ ("DateNotEquals" :> "f_date_not_equals")
    @@ ("DateLower" :> "f_date_lower") @@ ("DateLowerOrEquals" :> "f_date_lower_or_equals")
    @@ ("DateGreater" :> "f_date_greater")
    @@ ("DateGreaterOrEquals" :> "f_date_greater_or_equals")
    @@ ("DateAddMonths" :> "f_date_add_months")
    @@ ("Fixed" :> "f_fixed") @@ ("Left" :> "f_left") @@ ("Right" :> "f_right")
    @@ ("Mid" :> "f_mid") @@ ("Round" :> "f_round")

\* The call fnc(params, values) of a bound callable.
call_function(fnc, params, vals) ==
    CASE fnc = "f_is_null" -> f_is_null(params, vals)
      [] fnc = "f_are_equals" -> f_are_equals(params, vals)
      [] fnc = "f_in" -> f_in(params, vals)
      [] fnc = "f_in_like" -> f_in_like(params, vals)
      [] fnc = "f_is_like" -> f_is_like(params, vals)
      [] fnc = "f_first_not_null" -> f_first_not_null(params, vals)
      [] fnc = "f_concat" -> f_concat(params, vals)
      [] fnc = "f_exact" -> f_exact(params, vals)
      [] fnc = "f_find" -> f_find(params, vals)
      [] fnc = "f_capitalize" -> f_capitalize(params, vals)
      [] fnc = "f_replace_equals" -> f_replace_equals(params, vals)
      [] fnc = "f_replace_like" -> f_replace_like(params, vals)
      [] fnc = "f_and" -> f_and(params, vals)
      [] fnc = "f_or" -> f_or(params, vals)
      [] fnc = "f_not" -> f_not(params, vals)
      [] fnc = "f_xor" -> f_xor(params, vals)
      [] fnc = "f_iif" -> f_iif(params, vals)
      [] fnc \in DOMAIN two_dates_functions -> f_date_compare(fnc, params, vals)
      [] fnc = "f_date_add_months" -> f_date_add_months(params, vals)
      [] fnc \in DOMAIN coerced_functions -> f_coerced(fnc, params, vals)

(***************************************************************************)
(* crate::expressions (not under src/): the evaluator the functions call,   *)
(* as section 4.E of the specification describes it.                        *)
(***************************************************************************)
RECURSIVE exec_array(_, _, _, _)
exec_array(a, vals, i, acc) ==
    IF i > Len(a) THEN Ok(ResArray(acc))
    ELSE Bind(expressions_exec_expr(a[i], vals), LAMBDA res :
        exec_array(a, vals, i + 1, Append(acc, res)))

expressions_exec_expr(x, vals) ==
    CASE x.e = "Str" -> Ok(ResStr(x.s))
      [] x.e = "Boolean" -> Ok(ResBoolean(x.b))
      [] x.e = "Num" -> Ok(ResNum(x.n))
      [] x.e = "Array" -> exec_array(x.a, vals, 1, <<>>)
      [] x.e = "Identifier" ->
            IF x.id \in DOMAIN vals THEN Ok(ResStr(vals[x.id]))
            ELSE Err("Unable to find value for identifier named '" \o x.id \o "'")
      [] x.e = "FunctionCall" ->
            Err("Unable to find the function named '" \o x.name \o "'")
      [] x.e = "PreparedFunctionCall" -> call_function(x.fnc, x.params, vals).r

(***************************************************************************)
(* SpecLike: like_pattern_to_regex_pattern on the rows of the test table    *)
(* and on every pattern over {a, %, _} of at most MaxPat characters.        *)
(***************************************************************************)
LikeTable ==
    { <<"abcd", "^abcd$">>,
      <<"a_cd", "^a.{1}cd$">>,
      <<"ab%d", "^ab.*d$">>,
      <<"ab%%cd", "^ab%cd$">>,
      <<"_abc", "^.{1}abc$">>,
      <<"%abc", "^.*abc$">>,
      <<"def_", "^def.{1}$">>,
      <<"def%", "^def.*$">>,
      <<"_O__%%___%%%O%", "^.{1}O_%_.{1}%.*O.*$">> }

LikePatterns == {row[1] : row \in LikeTable} \cup Words({"a", "%", "_"}, MaxPat)

InitLike ==
    /\ pc = "like_ready"
    /\ like_pattern \in LikePatterns
    /\ dotnet_format = ""
    /\ expression = ""
    /\ parsed = NoExpr
    /\ expr = NoExpr
    /\ values = NoValues
    /\ result = NoResult
    /\ strong = NoStrong
    /\ local = NoLocal

LikePatternToRegexPattern ==
    /\ pc = "like_ready"
    /\ pc' = "like_done"
    /\ result' = like_pattern_to_regex_pattern(like_pattern)
    /\ UNCHANGED <<like_pattern, dotnet_format, expression, parsed, expr, values, strong, local>>

NextLike == LikePatternToRegexPattern

SpecLike == InitLike /\ [][NextLike]_vars

(***************************************************************************)
(* The reading of a LIKE pattern the specification gives: scanning left to  *)
(* right, a doubled wildcard is the literal, a single one the wildcard.     *)
(***************************************************************************)
RECURSIVE LikeReading(_)
LikeReading(p) ==
    IF p = "" THEN ""
    ELSE IF Len(p) >= 2 /\ IsWild(Char(p, 1)) /\ Char(p, 2) = Char(p, 1) THEN
        Char(p, 1) \o LikeReading(Drop(p, 2))
    ELSE IF Char(p, 1) = "%" THEN ANY_MANY \o LikeReading(Drop(p, 1))
    ELSE IF Char(p, 1) = "_" THEN ANY_ONE \o LikeReading(Drop(p, 1))
    ELSE Char(p, 1) \o LikeReading(Drop(p, 1))

(***************************************************************************)
(* SpecFunc: one call of a library function, bound as the binder binds it,  *)
(* evaluated once against an identifier map.                                *)
(***************************************************************************)
RECURSIVE Lists(_, _)
Lists(atoms, n) ==
    IF n = 0 THEN {<<>>}
    ELSE LET shorter == Lists(atoms, n - 1)
         IN  shorter \cup {Append(l, a) : l \in shorter, a \in atoms}

BoundCall(name, params) == PreparedFunctionCall(name, params, get_functions[name])

\* A parameter that evaluates to Null, and two that fail.
NullExpr == BoundCall("FirstNotNull", <<>>)

ErrExpr == Identifier("missing")

UnboundExpr == FunctionCall("Nope", <<>>)

LogicNames == {"And", "Or", "Iif", "If", "FirstNotNull", "FirstNotEmpty", "Not", "Xor",
               "IsNull", "IsBlank", "Capitalize"}

LogicAtoms == {Boolean(TRUE), Boolean(FALSE), NullExpr, ErrExpr, Identifier("my")}

EqualityNames == {"AreEquals", "In", "Exact", "Concat", "Concatenate"}

EqualityAtoms == {Str("1"), Num(1), Num(2), Boolean(TRUE), NullExpr, UnboundExpr,
                  Identifier("my")}

LikeNames == {"IsLike", "Like", "InLike"}

LikeAtoms == {Str("Foobar"), Str("f%bar"), Str("A"), Str("a_"), Str("a."), ErrExpr}

ReplaceNames == {"ReplaceEquals", "ReplaceLike"}

ReplaceKeys == {Str("hi"), Str("h%"), Str("no"), ErrExpr}

\* The replacement of pair i is recognisable: "v1", "v2", ..., or it fails.
ReplacePairs(i) == {<<k, v>> : k \in ReplaceKeys, v \in {Str("v" \o ToString(i)), ErrExpr}}

RECURSIVE ReplaceTails(_)
ReplaceTails(n) ==
    IF n = 0 THEN {<<>>}
    ELSE LET shorter == ReplaceTails(n - 1)
         IN  shorter \cup {t \o p : t \in {u \in shorter : Len(u) = 2 * (n - 1)},
                                    p \in ReplacePairs(n)}

ReplaceParams ==
    {<<text, default>> \o t : text \in {Str("hi"), Str("HI")},
                              default \in {Str("other"), ErrExpr},
                              t \in ReplaceTails(MaxPairs)}
    \cup Lists({Str("hi"), ErrExpr}, 2 * MaxPairs + 1)

FindParams ==
    {<<Str(needle), Str(hay)>> \o start :
        needle \in {"", "A", "b", "ab", "ba"},
        hay \in Words({"a", "B"}, MaxHay),
        start \in {<<>>} \cup {<<Num(n)>> : n \in (0 - 1)..(MaxHay + 2)}
                 \cup {<<Str("2")>>, <<Str("x")>>}}
    \cup Lists({Str("a"), ErrExpr}, 4)

ValueMaps == {("my" :> "1"), ("my" :> "a")}

FuncCalls ==
    {BoundCall(name, params) : name \in LogicNames, params \in Lists(LogicAtoms, MaxParams)}
    \cup {BoundCall(name, params) : name \in EqualityNames,
                                    params \in Lists(EqualityAtoms, MaxParams)}
    \cup {BoundCall(name, params) : name \in LikeNames, params \in Lists(LikeAtoms, MaxParams)}
    \cup {BoundCall(name, params) : name \in ReplaceNames, params \in ReplaceParams}
    \cup {BoundCall("Find", params) : params \in FindParams}

InitFunc ==
    /\ pc = "func_ready"
    /\ expr \in FuncCalls
    /\ values \in ValueMaps
    /\ like_pattern = ""
    /\ dotnet_format = ""
    /\ expression = ""
    /\ parsed = NoExpr
    /\ result = NoResult
    /\ strong = NoStrong
    /\ local = NoLocal

\* The evaluator's step on a bound call: fnc(params, values).
CallFunction ==
    /\ pc = "func_ready"
    /\ pc' = "func_done"
    /\ result' = call_function(expr.fnc, expr.params, values)
    /\ UNCHANGED <<like_pattern, dotnet_format, expression, parsed, expr, values, strong, local>>

NextFunc == CallFunction

SpecFunc == InitFunc /\ [][NextFunc]_vars

\* C4: like_pattern_to_regex_pattern wraps its output in ^...$, turns a single
\* % into .* and a single _ into .{1}, a doubled %% or __ into the literal, and
\* gives the listed regex for every row of the LIKE table.
C4_LikeTranslation ==
    pc = "like_done" =>
        /\ result = "^" \o LikeReading(like_pattern) \o "$"
        /\ \A row \in LikeTable : like_pattern = row[1] => result = row[2]

C4_Witness ==
    /\ pc = "like_done"
    /\ like_pattern = "_O__%%___%%%O%"
    /\ result = "^.{1}O_%_.{1}%.*O.*$"

(***************************************************************************)
(* Claims on SpecFunc.                                                      *)
(***************************************************************************)
Done(names) == pc = "func_done" /\ expr.name \in names

\* The 0-based indexes 0..k in order: what a left-to-right evaluation that
\* stops at parameter k has evaluated.
UpTo(k) == [i \in 1..(k + 1) |-> i - 1]

Coerced(i) == exec_expr_to_bool(Get(expr.params, i), values)

Evaluated(i) == expressions_exec_expr(Get(expr.params, i), values)

\* Parameter k decides an And (b = FALSE) or an Or (b = TRUE): it is the first
\* to coerce to b, and every parameter before it coerces to the opposite.
DecidesBool(b, k) ==
    /\ k \in 0..(Len(expr.params) - 1)
    /\ Coerced(k) = Ok(b)
    /\ \A j \in 0..(k - 1) : Coerced(j) = Ok(~b)

\* Parameter k decides a FirstNotNull: the first whose value is not Null.
DecidesNotNull(k) ==
    /\ k \in 0..(Len(expr.params) - 1)
    /\ IsOk(Evaluated(k)) /\ Evaluated(k).v # ResNull
    /\ \A j \in 0..(k - 1) : Evaluated(j) = Ok(ResNull)

\* C1: And, Or, Iif/If and FirstNotNull/FirstNotEmpty evaluate their arguments
\* left to right and stop at the deciding one: And returns false at the first
\* argument coercing to false, Or true at the first coercing to true, Iif
\* evaluates the condition and then only the selected branch, FirstNotNull
\* returns the first non-Null value; nothing after the deciding argument is
\* evaluated, so an error it would raise is never returned.
C1_ShortCircuit ==
    /\ Done({"And"}) =>
         \A k \in 0..(Len(expr.params) - 1) : DecidesBool(FALSE, k) =>
             result = Ret(Ok(ResBoolean(FALSE)), UpTo(k))
    /\ Done({"Or"}) =>
         \A k \in 0..(Len(expr.params) - 1) : DecidesBool(TRUE, k) =>
             result = Ret(Ok(ResBoolean(TRUE)), UpTo(k))
    /\ Done({"Iif", "If"}) /\ Len(expr.params) = 3 /\ IsOk(Coerced(0)) =>
         LET branch == IF Coerced(0).v THEN 1 ELSE 2
         IN  result = Ret(Evaluated(branch), <<0, branch>>)
    /\ Done({"FirstNotNull", "FirstNotEmpty"}) =>
         \A k \in 0..(Len(expr.params) - 1) : DecidesNotNull(k) =>
             result = Ret(Evaluated(k), UpTo(k))

\* And(true, false, <failing>) is false, and the failing argument was not evaluated.
C1_Witness ==
    /\ pc = "func_done"
    /\ expr.name = "And"
    /\ expr.params = <<Boolean(TRUE), Boolean(FALSE), ErrExpr>>
    /\ result = Ret(Ok(ResBoolean(FALSE)), <<0, 1>>)

\* Two evaluation results hold equal values: both succeeded, neither is Null,
\* same variant, same payload.
SameValue(left, right) ==
    /\ IsOk(left) /\ IsOk(right)
    /\ left.v.t # "Null" /\ right.v.t # "Null"
    /\ left.v.t = right.v.t
    /\ CASE left.v.t = "Str" -> left.v.s = right.v.s
         [] left.v.t = "Boolean" -> left.v.b = right.v.b
         [] left.v.t = "Num" -> left.v.n = right.v.n
         [] OTHER -> left.v.a = right.v.a

\* C2: AreEquals(a, b) is true only for two non-Null values of the same variant
\* with equal payload, without coercion, and false as soon as a side is Null,
\* AreEquals(Null, Null) included; In(needle, v1, ..., vn) is true iff some vi
\* equals needle under the same rule.
C2_EqualsWithoutCoercion ==
    /\ Done({"AreEquals"}) /\ IsOk(result.r) =>
         /\ result.r.v = ResBoolean(SameValue(Evaluated(0), Evaluated(1)))
         /\ (Evaluated(0).v = ResNull \/ Evaluated(1).v = ResNull) =>
                result.r.v = ResBoolean(FALSE)
    /\ Done({"In"}) /\ IsOk(result.r) =>
         result.r.v = ResBoolean(\E i \in 1..(Len(expr.params) - 1) :
                                     SameValue(Evaluated(0), Evaluated(i)))

\* AreEquals(Null, Null) answered false.
C2_Witness ==
    /\ pc = "func_done"
    /\ expr.name = "AreEquals"
    /\ expr.params = <<NullExpr, NullExpr>>
    /\ result.r = Ok(ResBoolean(FALSE))

\* text matches the LIKE pattern p from position i of p and j of text on,
\* ignoring case: a doubled %% or __ stands for itself, % for any run of
\* characters, _ for one character.
RECURSIVE LikeMatches(_, _, _, _)
LikeMatches(p, i, text, j) ==
    IF i > Len(p) THEN j = Len(text) + 1
    ELSE LET c == Char(p, i) IN
        IF c \in {"%", "_"} /\ Char(p, i + 1) = c THEN
            j <= Len(text) /\ Char(text, j) = c /\ LikeMatches(p, i + 2, text, j + 1)
        ELSE IF c = "%" THEN
            \E k \in j..(Len(text) + 1) : LikeMatches(p, i + 1, text, k)
        ELSE IF c = "_" THEN
            j <= Len(text) /\ LikeMatches(p, i + 1, text, j + 1)
        ELSE j <= Len(text) /\ Fold(Char(text, j)) = Fold(c)
             /\ LikeMatches(p, i + 1, text, j + 1)

\* The pairs of a Replace call: pair i is (params[2i], params[2i + 1]), i >= 1.
PairCount == (Len(expr.params) - 2) \div 2

KeyText(i) == exec_expr_to_string(Get(expr.params, 2 * i), values)

KeyMatches(i) ==
    LET text == exec_expr_to_string(Get(expr.params, 0), values)
        key == KeyText(i)
    IN  /\ IsOk(text) /\ IsOk(key)
        /\ IF expr.name = "ReplaceLike" THEN LikeMatches(key.v, 1, text.v, 1)
           ELSE FoldText(text.v) = FoldText(key.v)

\* The keys of pairs 1..i were read and none matched.
NoneMatches(i) == \A j \in 1..i : IsOk(KeyText(j)) /\ ~KeyMatches(j)

\* The parameters evaluated when pair i is the one returned: the text, the
\* keys 1..i, the replacement i.
ReplaceTrace(i) == <<0>> \o [j \in 1..i |-> 2 * j] \o <<2 * i + 1>>

\* C3: ReplaceEquals(text, default, k1, v1, ..., kn, vn) returns the evaluation
\* of vi for the smallest i whose ki equals text as a whole string ignoring
\* case, and the evaluation of default when no key matches; default is
\* evaluated only then, the keys after the matching one and every other vj are
\* not evaluated.  ReplaceLike does the same with each ki a LIKE pattern.
C3_ReplaceFirstMatch ==
    Done({"ReplaceEquals", "ReplaceLike"}) /\ Len(expr.params) >= 4
    /\ Len(expr.params) % 2 = 0 /\ IsOk(Evaluated(0)) =>
        /\ \A i \in 1..PairCount : NoneMatches(i - 1) /\ KeyMatches(i) =>
               result = Ret(Evaluated(2 * i + 1), ReplaceTrace(i))
        /\ NoneMatches(PairCount) =>
               result = Ret(Evaluated(1), <<0>> \o [j \in 1..PairCount |-> 2 * j] \o <<1>>)

\* The second key matches: its replacement is returned, and neither the failing
\* default nor the failing first replacement was evaluated.
C3_Witness ==
    /\ pc = "func_done"
    /\ expr.name = "ReplaceEquals"
    /\ expr.params = <<Str("HI"), ErrExpr, Str("no"), ErrExpr, Str("hi"), Str("v2")>>
    /\ result = Ret(Ok(ResStr("v2")), <<0, 2, 4, 5>>)

Stringified(i) == exec_expr_to_string(Get(expr.params, i), values)

\* C5: InLike(needle, p1, ..., pn) is true iff some pi, read as a LIKE pattern,
\* matches the stringified needle ignoring case: the first argument is the text
\* tested and each later argument a pattern, so InLike("Foobar", "f%bar") is
\* true and InLike("f%bar", "Foobar") is false.
C5_InLikeRoles ==
    Done({"InLike"}) /\ IsOk(result.r) =>
        result.r.v = ResBoolean(\E i \in 1..(Len(expr.params) - 1) :
                                    /\ IsOk(Stringified(i))
                                    /\ LikeMatches(Stringified(i).v, 1, Stringified(0).v, 1))

\* The occurrences of needle in haystack ignoring case, as offsets from the
\* beginning of haystack, at or after the 1-based position max(start, 1).
Occurrences(needle, haystack, start) ==
    {o \in 0..(Len(haystack) - Len(needle)) :
        /\ o + 1 >= (IF start > 1 THEN start ELSE 1)
        /\ FoldText(Slice(haystack, o + 1, o + Len(needle))) = FoldText(needle)}

FindStart ==
    IF Len(expr.params) = 2 THEN Ok(1) ELSE exec_expr_to_int(Get(expr.params, 2), values)

\* C6: Find(needle, haystack, start) is 0 iff needle has no case-insensitive
\* occurrence in haystack at or after position max(start, 1), and otherwise 1
\* plus the offset of the first such occurrence; an omitted start is 1; this
\* holds for every integer start, start <= 0 and start beyond the end of
\* haystack included (result 0, no failure).
C6_FindFromStart ==
    Done({"Find"}) /\ Len(expr.params) \in {2, 3} /\ IsOk(FindStart)
    /\ IsOk(Stringified(0)) /\ IsOk(Stringified(1)) =>
        LET found == Occurrences(Stringified(0).v, Stringified(1).v, FindStart.v)
        IN  result.r = Ok(ResNum(IF found = {} THEN 0
                                 ELSE 1 + CHOOSE o \in found : \A m \in found : o <= m))

\* The same for the starts that are not beyond the end of haystack by more
\* than one position.
FindWithinHaystack ==
    \/ /\ Done({"Find"}) /\ Len(expr.params) \in {2, 3} /\ IsOk(FindStart)
       /\ IsOk(Stringified(1)) /\ FindStart.v > Len(Stringified(1).v) + 1
    \/ C6_FindFromStart

\* The arity constraint of each function of the registry.
ArityOk(name, n) ==
    CASE name \in {"IsNull", "IsBlank"} -> n <= 1
      [] name \in {"Not", "Capitalize"} -> n = 1
      [] name \in {"AreEquals", "IsLike", "Like", "Exact", "Xor"} -> n = 2
      [] name \in {"Iif", "If"} -> n = 3
      [] name \in {"In", "InLike"} -> n >= 2
      [] name = "Find" -> n \in {2, 3}
      [] name \in {"ReplaceEquals", "ReplaceLike"} -> n >= 4
      [] OTHER -> TRUE

\* The name a function reports: an alias reports the name of the function it
\* is an alias of.
ReportedNames(name) ==
    {name} \cup (IF name = "Like" THEN {"IsLike"} ELSE {})
           \cup (IF name = "If" THEN {"Iif"} ELSE {})
           \cup (IF name = "IsBlank" THEN {"IsNull"} ELSE {})

StartsWith(s, prefix) == Take(s, Len(prefix)) = prefix

\* C7: a call of a function of the registry with a number of arguments outside
\* its arity constraint returns an error beginning "Function <Name> should have",
\* before any argument is evaluated; IsNull/IsBlank with two or more arguments
\* included.
C7_ArityErrorFirst ==
    pc = "func_done" /\ ~ArityOk(expr.name, Len(expr.params)) =>
        /\ IsErr(result.r)
        /\ \E name \in ReportedNames(expr.name) :
               StartsWith(result.r.err, "Function " \o name \o " should have")
        /\ result.ev = <<>>

\* The same for every function but IsNull/IsBlank.
ArityErrorOthers == expr.name \notin {"IsNull", "IsBlank"} => C7_ArityErrorFirst

(***************************************************************************)
(* lib.rs: the function registry of ffi_parse_expr, the binder prepare_expr *)
(* and the evaluator exec_expr.                                             *)
(***************************************************************************)
\* The deepest nesting of calls in the trees bound and evaluated.
MaxDepth == 2

\* funcs, as ffi_parse_expr fills it: name :> closure.
funcs == ("true" :> "fn_true") @@ ("first" :> "fn_first")

\* fnc(parameters) for the closures of funcs.
call_closure(fnc, parameters) ==
    IF fnc = "fn_true" THEN Ok(Boolean(TRUE))
    ELSE IF Len(parameters) = 0 THEN Err("There was no first value.")
    ELSE Ok(Head(parameters))

prepare_expr_case_folded(x, fs) ==
    IF x.e = "FunctionCall" /\ FoldText(x.name) \in DOMAIN fs THEN
        PreparedFunctionCall(x.name, x.params, fs[FoldText(x.name)])
    ELSE x

\* prepare_expr handing every call of a known name the callable of one key.
RECURSIVE prepare_expr_one_callable(_, _)
prepare_expr_one_callable(x, fs) ==
    IF x.e = "FunctionCall" THEN
        IF x.name \in DOMAIN fs THEN
            PreparedFunctionCall(x.name,
                                 [i \in 1..Len(x.params) |->
                                     prepare_expr_one_callable(x.params[i], fs)],
                                 fs[CHOOSE key \in DOMAIN fs : TRUE])
        ELSE FunctionCall(x.name, x.params)
    ELSE x

RECURSIVE prepare_expr(_, _)
prepare_expr(x, fs) ==
    IF x.e = "FunctionCall" THEN
        IF x.name \in DOMAIN fs THEN
            PreparedFunctionCall(x.name,
                                 [i \in 1..Len(x.params) |-> prepare_expr(x.params[i], fs)],
                                 fs[x.name])
        ELSE FunctionCall(x.name, x.params)
    ELSE x

identifier_value_case_folded(name, vals) ==
    IF FoldText(name) \in DOMAIN vals THEN Ok(Str(vals[FoldText(name)]))
    ELSE Err("Unable to find value for identifier named '" \o name \o "'")

\* The Expr::Identifier arm of exec_expr: match &values.get(name).
identifier_value(name, vals) ==
    IF name \in DOMAIN vals THEN Ok(Str(vals[name]))
    ELSE Err("Unable to find value for identifier named '" \o name \o "'")

RECURSIVE exec_expr(_, _)
exec_expr(x, vals) ==
    CASE x.e \in {"Str", "Boolean", "Num", "Array"} -> Ok(x)
      [] x.e = "Identifier" -> identifier_value(x.id, vals)
      [] x.e = "FunctionCall" ->
            Err("Unable to find the function named '" \o x.name \o "'")
      [] x.e = "PreparedFunctionCall" ->
            LET call_result == call_closure(x.fnc, x.params)
            IN  IF ~IsOk(call_result) THEN call_result
                ELSE exec_expr(call_result.v, vals)

(***************************************************************************)
(* Spec: a parsed tree is bound by prepare_expr against funcs and then      *)
(* evaluated by exec_expr against an identifier map.                        *)
(***************************************************************************)
Leaves ==
    {Num(1), Str("my"), Boolean(FALSE), Identifier("my"), Identifier("My"),
     Identifier("first"), Array(<<FunctionCall("first", <<Num(1)>>)>>)}

CallNames == {"first", "true", "First", "nope"}

\* The parameters after the first one.
Rests == {<<>>, <<Num(2)>>, <<FunctionCall("nope", <<>>), Num(3)>>}

RECURSIVE Trees(_)
Trees(depth) ==
    IF depth = 0 THEN Leaves
    ELSE LET inner == Trees(depth - 1)
         IN  Leaves \cup {FunctionCall(name, <<>>) : name \in CallNames}
                    \cup {FunctionCall(name, <<t>> \o rest) :
                            name \in CallNames, t \in inner, rest \in Rests}

IdentifierMaps == {NoValues, ("my" :> "1"), ("my" :> "true") @@ ("first" :> "x")}

Init ==
    /\ pc = "parsed"
    /\ parsed \in Trees(MaxDepth)
    /\ values \in IdentifierMaps
    /\ expr = NoExpr
    /\ like_pattern = ""
    /\ dotnet_format = ""
    /\ expression = ""
    /\ result = NoResult
    /\ strong = NoStrong
    /\ local = NoLocal

\* let expr = prepare_expr(expr, &funcs)
PrepareExpr ==
    /\ pc = "parsed"
    /\ pc' = "prepared"
    /\ expr' = prepare_expr(parsed, funcs)
    /\ UNCHANGED <<like_pattern, dotnet_format, expression, parsed, values, result, strong, local>>

\* exec_expr(RefOrValue::Value(expr), values)
ExecExpr ==
    /\ pc = "prepared"
    /\ pc' = "done"
    /\ result' = exec_expr(expr, values)
    /\ UNCHANGED <<like_pattern, dotnet_format, expression, parsed, expr, values, strong, local>>

Next == PrepareExpr \/ ExecExpr

Spec == Init /\ [][Next]_vars

(***************************************************************************)
(* Claims on Spec.                                                          *)
(***************************************************************************)
\* The tree an evaluation comes down to: a bound first(t, ...) hands back t,
\* which is evaluated in its turn.
RECURSIVE Target(_)
Target(x) ==
    IF x.e = "PreparedFunctionCall" /\ x.fnc = "fn_first" /\ Len(x.params) > 0
    THEN Target(x.params[1])
    ELSE x

\* C8: evaluating Identifier(name) returns Str(v) when the identifier map binds
\* exactly name, case included, to v, and otherwise fails with "Unable to find
\* value for identifier named '<name>'"; the value enters the evaluation as a
\* string, never as a number or a boolean.
C8_IdentifierLookup ==
    pc = "done" /\ Target(expr).e = "Identifier" =>
        LET name == Target(expr).id
            bound == {n \in DOMAIN values : n = name}
        IN  /\ bound # {} => result = Ok([e |-> "Str", s |-> values[name]])
            /\ bound = {} =>
                 result = Err("Unable to find value for identifier named '" \o name \o "'")

\* Identifier my, bound to "1", evaluated to the string "1".
C8_Witness ==
    /\ pc = "done"
    /\ expr = Identifier("my")
    /\ values = ("my" :> "1")
    /\ result = Ok(Str("1"))

ExprKinds ==
    {"Str", "Boolean", "Num", "Array", "Identifier", "FunctionCall", "PreparedFunctionCall"}

\* C9: a call whose name is not a key of the registry, case included, is left
\* an unbound FunctionCall by the binder, and evaluating it fails with "Unable
\* to find the function named '<name>'"; binding itself never fails.
C9_UnknownFunction ==
    /\ pc \in {"prepared", "done"} => expr.e \in ExprKinds
    /\ pc \in {"prepared", "done"} /\ parsed.e = "FunctionCall"
       /\ parsed.name \notin DOMAIN funcs => expr = parsed
    /\ pc = "done" /\ Target(expr).e = "FunctionCall" =>
         result = Err("Unable to find the function named '" \o Target(expr).name \o "'")

\* First(1) is not first(1): it stays unbound and its evaluation fails.
C9_Witness ==
    /\ pc = "done"
    /\ parsed = FunctionCall("First", <<Num(1)>>)
    /\ expr = parsed
    /\ result = Err("Unable to find the function named 'First'")

(***************************************************************************)
(* lib.rs: the parser.  A combinator applied to an input returns            *)
(* POk(rest, v), or PError (recoverable: alt and opt go on), or PFailure    *)
(* (after cut: the whole parse stops).                                      *)
(***************************************************************************)
POk(rest, v) == [k |-> "Ok", rest |-> rest, v |-> v]

PError(at, kind) == [k |-> "Error", at |-> at, kind |-> kind]

PFailure(at, kind) == [k |-> "Failure", at |-> at, kind |-> kind]

cut(r) == IF r.k = "Error" THEN PFailure(r.at, r.kind) ELSE r

tag(t, input) ==
    IF Take(input, Len(t)) = t THEN POk(Drop(input, Len(t)), t) ELSE PError(input, "Tag")

char(c, input) ==
    IF Char(input, 1) = c THEN POk(Drop(input, 1), c) ELSE PError(input, "Char")

IsAlphanumeric(c) == IsIn(c, UpperChars) \/ IsIn(c, LowerChars) \/ IsIn(c, Digits)

InClass(c, class) ==
    CASE class = "space" -> IsSpace(c)
      [] class = "digit" -> IsIn(c, Digits)
      [] class = "alphanumeric" -> IsAlphanumeric(c)

\* The length of the longest prefix of s made of characters of the class.
SpanLen(s, class) ==
    CHOOSE n \in 0..Len(s) :
        /\ \A i \in 1..n : InClass(Char(s, i), class)
        /\ n = Len(s) \/ ~InClass(Char(s, n + 1), class)

\* sp: take_while over " \t\r\n"
sp(input) ==
    LET n == SpanLen(input, "space") IN POk(Drop(input, n), Take(input, n))

\* A combinator after another: what follows gets the input left and the value.
PBind(r, K(_, _)) == IF r.k = "Ok" THEN K(r.rest, r.v) ELSE r

\* nom's alt on two alternatives: the second is tried after an Error of the
\* first, and its error is the one returned.
POr(r, other) == IF r.k = "Error" THEN other ELSE r

\* The length of the mantissa at the head of a: digits [. [digits]] | . digits,
\* 0 for none.
float_mantissa(a) ==
    LET int == SpanLen(a, "digit")
        frac == SpanLen(Drop(a, int + 1), "digit")
    IN  IF int > 0 THEN (IF Char(a, int + 1) = "." THEN int + 1 + frac ELSE int)
        ELSE IF Char(a, 1) = "." /\ frac > 0 THEN 1 + frac
        ELSE 0

\* The exponent after the n characters of sign and mantissa:
\* [(e|E) [+-] cut(digits)]
float_exponent(input, n) ==
    LET b == Drop(input, n)
        esign == IF Char(b, 2) \in {"+", "-"} THEN 1 ELSE 0
        edigits == SpanLen(Drop(b, 1 + esign), "digit")
    IN  IF Char(b, 1) \notin {"e", "E"} THEN POk(b, Take(input, n))
        ELSE IF edigits = 0 THEN PFailure(Drop(b, 1 + esign), "Digit")
        ELSE POk(Drop(b, 1 + esign + edigits), Take(input, n + 1 + esign + edigits))

float_after_sign(input, sign, mantissa) ==
    IF mantissa = 0 THEN
        PError(Drop(input, sign), IF Char(input, sign + 1) = "." THEN "Digit" ELSE "Char")
    ELSE float_exponent(input, sign + mantissa)

float_sign(input) == IF Char(input, 1) \in {"+", "-"} THEN 1 ELSE 0

\* nom::number::complete::recognize_float: [+-] mantissa [exponent]
recognize_float(input) ==
    float_after_sign(input, float_sign(input), float_mantissa(Drop(input, float_sign(input))))

\* The f64 a recognised text stands for: the integer for an integer literal;
\* a literal with a fraction or an exponent keeps its text.
FloatValue(text) == IF IsOk(ParseInt(text)) THEN ParseInt(text).v ELSE text

\* nom::number::complete::double
double(input) ==
    PBind(recognize_float(input), LAMBDA rest, text : POk(rest, FloatValue(text)))

\* boolean: alt((tag("false"), tag("true")))
boolean(input) ==
    POr(PBind(tag("false", input), LAMBDA rest, t : POk(rest, FALSE)),
        PBind(tag("true", input), LAMBDA rest, t : POk(rest, TRUE)))

\* nom's escaped(alphanumeric1, '\\', one_of("\\\"rnt")), with i what is left
\* of input.
RECURSIVE escaped(_, _)
escaped(input, i) ==
    IF i = "" THEN POk("", input)
    ELSE LET normal == SpanLen(i, "alphanumeric") IN
        IF normal > 0 THEN
            IF normal = Len(i) THEN POk("", input) ELSE escaped(input, Drop(i, normal))
        ELSE IF Char(i, 1) = "\\" THEN
            IF Len(i) <= 1 THEN PError(input, "Escaped")
            ELSE IF Char(i, 2) \in {"\\", "\"", "r", "n", "t"} THEN
                IF Len(i) = 2 THEN POk("", input) ELSE escaped(input, Drop(i, 2))
            ELSE PError(Drop(i, 1), "OneOf")
        ELSE IF Len(i) = Len(input) THEN PError(input, "Escaped")
        ELSE POk(i, Take(input, Len(input) - Len(i)))

\* parse_str: the interior of a string literal
parse_str(input) == escaped(input, input)

\* string: preceded(char('"'), cut(terminated(parse_str, char('"'))))
string(input) ==
    PBind(char("\"", input), LAMBDA after_open, open :
        cut(PBind(parse_str(after_open), LAMBDA after_interior, interior :
            PBind(char("\"", after_interior), LAMBDA after_close, close :
                POk(after_close, interior)))))

\* The character an escape \c of unescape::unescape stands for, "" for none.
unescape_char(c) ==
    CASE c = "n" -> "\n" [] c = "r" -> "\r" [] c = "t" -> "\t"
      [] c = "\\" -> "\\" [] c = "\"" -> "\"" [] c = "'" -> "'"
      [] OTHER -> ""

unescape_left_encoded(s) == Ok(s)

\* unescape::unescape on the interior of a string literal: Err for None.
RECURSIVE unescape(_)
unescape(s) ==
    IF s = "" THEN Ok("")
    ELSE IF Char(s, 1) # "\\" THEN
        Bind(unescape(Drop(s, 1)), LAMBDA rest : Ok(Char(s, 1) \o rest))
    ELSE IF unescape_char(Char(s, 2)) = "" THEN Err("None")
    ELSE Bind(unescape(Drop(s, 2)), LAMBDA rest : Ok(unescape_char(Char(s, 2)) \o rest))

\* The identifier at the head of b: recognize(tuple((opt(tag("_")), alphanumeric0)))
identifier_name(b, underscore) ==
    POk(Drop(b, underscore + SpanLen(Drop(b, underscore), "alphanumeric")),
        Take(b, underscore + SpanLen(Drop(b, underscore), "alphanumeric")))

\* preceded(opt(tag("@")), ...)
identifier_at(a) ==
    IF Char(a, 1) = "@" THEN identifier_name(Drop(a, 1), IF Char(a, 2) = "_" THEN 1 ELSE 0)
    ELSE identifier_name(a, IF Char(a, 1) = "_" THEN 1 ELSE 0)

\* identifier: preceded(opt(sp), preceded(opt(tag("@")),
\* recognize(tuple((opt(tag("_")), alphanumeric0)))))
identifier(input) == identifier_at(sp(input).rest)

RECURSIVE value(_)
RECURSIVE separated_list_loop(_, _)

\* The separator of a list: preceded(sp, char(','))
separator(input) == char(",", sp(input).rest)

\* nom's separated_list, after the separator s and the next element f: res
\* are the elements so far, i the input after them.
separated_list_next(f, i, res) ==
    IF f.k = "Error" THEN POk(i, res)
    ELSE IF f.k = "Failure" THEN f
    ELSE IF f.rest = i THEN PError(f.rest, "SeparatedList")
    ELSE separated_list_loop(f.rest, Append(res, f.v))

\* nom's separated_list, after the separator s.
separated_list_sep(s, i, res) ==
    IF s.k = "Error" THEN POk(i, res)
    ELSE IF s.k = "Failure" THEN s
    ELSE IF s.rest = i THEN PError(s.rest, "SeparatedList")
    ELSE separated_list_next(value(s.rest), i, res)

\* nom's separated_list(separator, value): the loop after the first element.
separated_list_loop(i, res) == separated_list_sep(separator(i), i, res)

\* nom's separated_list(separator, value), after its first element f: an
\* element that consumes nothing is an error.
separated_list_first(f, input) ==
    IF f.k = "Error" THEN POk(input, <<>>)
    ELSE IF f.k = "Failure" THEN f
    ELSE IF f.rest = input THEN PError(f.rest, "SeparatedList")
    ELSE separated_list_loop(f.rest, <<f.v>>)

\* nom's separated_list(separator, value)
separated_list(input) == separated_list_first(value(input), input)

\* array: preceded(char('['), cut(terminated(separated_list, preceded(sp, char(']')))))
array(input) ==
    PBind(char("[", input), LAMBDA after_open, open :
        cut(PBind(separated_list(after_open), LAMBDA after_list, list :
            PBind(char("]", sp(after_list).rest), LAMBDA after_close, close :
                POk(after_close, list)))))

\* parameters: preceded(char('('), terminated(separated_list,
\* preceded(opt(sp), char(')'))))
parameters(input) ==
    PBind(char("(", input), LAMBDA after_open, open :
        PBind(separated_list(after_open), LAMBDA after_list, list :
            PBind(char(")", sp(after_list).rest), LAMBDA after_close, close :
                POk(after_close, list))))

\* function_call: pair(identifier, parameters)
function_call(input) ==
    PBind(identifier(input), LAMBDA after_name, name :
        PBind(parameters(after_name), LAMBDA rest, params : POk(rest, <<name, params>>)))

\* nom's not(parameters) after identifier
not_parameters(params, after_name, name) ==
    IF params.k = "Ok" THEN PError(after_name, "Not")
    ELSE IF params.k = "Failure" THEN params
    ELSE POk(after_name, name)

\* identifier_only: pair(identifier, not(parameters))
identifier_only(input) ==
    PBind(identifier(input), LAMBDA after_name, name :
        not_parameters(parameters(after_name), after_name, name))

\* map_opt(..., unescape): None is an error
map_opt_unescape(unescaped, rest, input) ==
    IF IsOk(unescaped) THEN POk(rest, Str(unescaped.v)) ELSE PError(input, "MapOpt")

\* The alternatives of value, at the input after the leading whitespace; alt
\* goes on after an Error, stops at a Failure.
value_alt(i) ==
    POr(PBind(double(i), LAMBDA rest, n : POk(rest, Num(n))),
    POr(PBind(boolean(i), LAMBDA rest, b : POk(rest, Boolean(b))),
    POr(PBind(string(i), LAMBDA rest, s : map_opt_unescape(unescape(s), rest, i)),
    POr(PBind(function_call(i), LAMBDA rest, f : POk(rest, FunctionCall(f[1], f[2]))),
    POr(PBind(array(i), LAMBDA rest, a : POk(rest, Array(a))),
        PBind(identifier_only(i), LAMBDA rest, name : POk(rest, Identifier(name))))))))

\* value: preceded(sp, alt((double, boolean, string, function_call, array,
\* identifier_only)))
value(input) == value_alt(sp(input).rest)

\* expr: delimited(opt(sp), value, opt(sp))
expr_combinator(input) ==
    PBind(value(sp(input).rest), LAMBDA rest, v : POk(sp(rest).rest, v))

\* parse_expr on the result of expr: the value of an Ok, whatever input is
\* left; the Debug rendering of an error.
parse_expr_result(r) ==
    IF r.k = "Ok" THEN Ok(r.v)
    ELSE Err(r.k \o "((\"" \o r.at \o "\", " \o r.kind \o "))")

parse_expr(text) == parse_expr_result(expr_combinator(text))

(***************************************************************************)
(* SpecParse: parse_expr on one expression text.                            *)
(***************************************************************************)
\* The most tokens of an expression text.
MaxTokens == 3

Tokens == {"1", "2", " ", "id", "true", "X", "(", ")", ",", "_", "@", "["}

InitParse ==
    /\ pc = "parse_ready"
    /\ expression \in Words(Tokens, MaxTokens)
    /\ parsed = NoExpr
    /\ expr = NoExpr
    /\ values = NoValues
    /\ like_pattern = ""
    /\ dotnet_format = ""
    /\ result = NoResult
    /\ strong = NoStrong
    /\ local = NoLocal

\* let expr = parse_expr(expression)
ParseExpr ==
    /\ pc = "parse_ready"
    /\ pc' = "parse_done"
    /\ result' = parse_expr(expression)
    /\ parsed' = IF IsOk(result') THEN result'.v ELSE NoExpr
    /\ UNCHANGED <<like_pattern, dotnet_format, expression, expr, values, strong, local>>

NextParse == ParseExpr

SpecParse == InitParse /\ [][NextParse]_vars

\* What expr leaves of the expression text after one value and the whitespace
\* around it.
LeftOver == expr_combinator(expression).rest

\* C10: parse_expr returns a parse error whenever the input is not entirely
\* consumed by one value and the whitespace around it: text left after the
\* first value ("1 2", "id)", "trueX") makes the parse fail instead of
\* returning the value parsed so far.
C10_TrailingInputRejected ==
    pc = "parse_done" /\ expr_combinator(expression).k = "Ok" /\ LeftOver # "" =>
        IsErr(result)

\* Where nothing is left over, parse_expr returns the value expr parsed.
WholeInputParsed ==
    pc = "parse_done" /\ expr_combinator(expression).k = "Ok" /\ LeftOver = "" =>
        result = Ok(expr_combinator(expression).v)

(***************************************************************************)
(* Claims on SpecParse: calls and identifiers.                              *)
(***************************************************************************)
\* The identifier at the head of the expression text and what follows it.
HeadName == identifier(expression).v

AfterHead == identifier(expression).rest

\* The expression text starts with an identifier text that is neither a
\* number nor a boolean literal.
StartsWithIdentifier ==
    /\ HeadName # ""
    /\ ~IsIn(Char(HeadName, 1), Digits)
    /\ ~StartsWith(HeadName, "true")
    /\ ~StartsWith(HeadName, "false")

\* C11: an identifier text followed by an open parenthesis is always parsed as
\* the head of a call, FunctionCall(name, args), and never as a bare
\* Identifier; an identifier text not followed by an open parenthesis is
\* parsed as Identifier(name).
C11_CallHead ==
    pc = "parse_done" /\ StartsWithIdentifier /\ IsOk(result) =>
        IF Char(AfterHead, 1) = "("
        THEN result.v.e = "FunctionCall" /\ result.v.name = HeadName
        ELSE result.v = Identifier(HeadName)

\* The name of an identifier text: the text without the leading '@'.
NameOf(text) == IF Char(text, 1) = "@" THEN Drop(text, 1) ELSE text

\* An identifier text: alphanumerics and single underscores between or before
\* them (id, id42, _id0, id_id), optionally prefixed by '@', that is neither a
\* number nor a boolean literal.
IsIdentifierText(text) ==
    /\ NameOf(text) # ""
    /\ \A i \in 1..Len(NameOf(text)) :
          \/ IsAlphanumeric(Char(NameOf(text), i))
          \/ Char(NameOf(text), i) = "_" /\ IsAlphanumeric(Char(NameOf(text), i + 1))
    /\ ~IsIn(Char(NameOf(text), 1), Digits)
    /\ ~StartsWith(NameOf(text), "true")
    /\ ~StartsWith(NameOf(text), "false")

\* C12: parse_expr applied to an identifier text made of alphanumerics and
\* underscores, optionally prefixed by '@', returns Identifier holding the
\* whole name without the '@': an underscore in the middle of the name is kept
\* and the text after it is not dropped.
C12_WholeIdentifier ==
    pc = "parse_done" /\ IsIdentifierText(expression) =>
        result = Ok(Identifier(NameOf(expression)))

\* Without an underscore after the first character, the whole name is kept.
IdentifierWithoutInnerUnderscore ==
    pc = "parse_done" /\ IsIdentifierText(expression)
    /\ (\A i \in 2..Len(NameOf(expression)) : Char(NameOf(expression), i) # "_") =>
        result = Ok(Identifier(NameOf(expression)))

(***************************************************************************)
(* SpecStr: parse_expr on one double-quoted literal.                        *)
(***************************************************************************)
\* The most pieces (runs of alphanumerics, escapes) of the interior of a
\* literal.
MaxPieces == 3

\* Runs of alphanumerics, the five escapes of parse_str, and two escapes it
\* does not list.
Pieces == {"a", "Z9", "\\\\", "\\\"", "\\r", "\\n", "\\t", "\\x", "\\'"}

InitStr ==
    /\ pc = "parse_ready"
    /\ expression \in {"\"" \o interior \o "\"" : interior \in Words(Pieces, MaxPieces)}
    /\ parsed = NoExpr
    /\ expr = NoExpr
    /\ values = NoValues
    /\ like_pattern = ""
    /\ dotnet_format = ""
    /\ result = NoResult
    /\ strong = NoStrong
    /\ local = NoLocal

SpecStr == InitStr /\ [][NextParse]_vars

\* What is between the quotes of the expression text.
Interior == Slice(expression, 2, Len(expression) - 1)

\* The character an escape of the grammar stands for.
EscapeTable ==
    ("\\" :> "\\") @@ ("\"" :> "\"") @@ ("r" :> "\r") @@ ("n" :> "\n") @@ ("t" :> "\t")

\* Reading an interior by the grammar: the decoded text, or bad for a
\* backslash followed by a character that is not in the table.
RECURSIVE StrReading(_)
StrReading(i) ==
    IF i = "" THEN [bad |-> FALSE, text |-> ""]
    ELSE IF Char(i, 1) # "\\" THEN
        [bad |-> StrReading(Drop(i, 1)).bad,
         text |-> Char(i, 1) \o StrReading(Drop(i, 1)).text]
    ELSE IF Char(i, 2) \in DOMAIN EscapeTable THEN
        [bad |-> StrReading(Drop(i, 2)).bad,
         text |-> EscapeTable[Char(i, 2)] \o StrReading(Drop(i, 2)).text]
    ELSE [bad |-> TRUE, text |-> ""]

EmptyLiteral == pc = "parse_done" /\ Interior = "" => IsErr(result)

(***************************************************************************)
(* SpecScenario: an expression text is parsed by parse_expr, bound against  *)
(* the registry of get_functions and evaluated against an identifier map.   *)
(***************************************************************************)
\* The most arguments of the call in the expression text.
MaxArgs == 2

\* The arguments as they are written in the expression text.
ScenarioArgs == {"\"Hello, \"", "\"world\"", "\"Hello\"", "\"a b\"", "1", "id"}

RECURSIVE Join(_, _)
Join(texts, sep) ==
    IF Len(texts) = 0 THEN ""
    ELSE IF Len(texts) = 1 THEN texts[1]
    ELSE texts[1] \o sep \o Join(Tail(texts), sep)

ScenarioTexts ==
    {name \o "(" \o Join(args, sep) \o ")" :
        name \in {"Concat", "Concatenate"},
        args \in Lists(ScenarioArgs, MaxArgs),
        sep \in {",", ", "}}

InitScenario ==
    /\ pc = "scenario_ready"
    /\ expression \in ScenarioTexts
    /\ values \in {NoValues, ("id" :> "v")}
    /\ parsed = NoExpr
    /\ expr = NoExpr
    /\ like_pattern = ""
    /\ dotnet_format = ""
    /\ result = NoResult
    /\ strong = NoStrong
    /\ local = NoLocal

\* parse_expr(expression): an error ends the scenario.
ScenarioParse ==
    /\ pc = "scenario_ready"
    /\ IF IsOk(parse_expr(expression))
       THEN /\ pc' = "scenario_parsed"
            /\ parsed' = parse_expr(expression).v
            /\ result' = result
       ELSE /\ pc' = "scenario_failed"
            /\ parsed' = parsed
            /\ result' = parse_expr(expression)
    /\ UNCHANGED <<like_pattern, dotnet_format, expression, expr, values, strong, local>>

\* prepare_expr(expr, &funcs) with the registry of get_functions
ScenarioPrepare ==
    /\ pc = "scenario_parsed"
    /\ pc' = "scenario_prepared"
    /\ expr' = prepare_expr(parsed, get_functions)
    /\ UNCHANGED <<like_pattern, dotnet_format, expression, parsed, values, result, strong, local>>

\* exec_expr(&expr, &values)
ScenarioExec ==
    /\ pc = "scenario_prepared"
    /\ pc' = "scenario_done"
    /\ result' = expressions_exec_expr(expr, values)
    /\ UNCHANGED <<like_pattern, dotnet_format, expression, parsed, expr, values, strong, local>>

NextScenario == ScenarioParse \/ ScenarioPrepare \/ ScenarioExec

SpecScenario == InitScenario /\ [][NextScenario]_vars

\* The interiors of the string literals among ScenarioArgs.
ScenarioInteriors == {"Hello, ", "world", "Hello", "a b"}

\* C14: Concat("Hello, ", "world") parses, binds and evaluates to the string
\* "Hello, world": a string literal whose interior contains a space or a comma
\* is accepted by the parser as a Str holding exactly those characters, and
\* Concat returns the concatenation, in argument order, of the stringified
\* values of its arguments.
C14_ConcatScenario ==
    \A a, b \in ScenarioInteriors :
        /\ pc \in {"scenario_failed", "scenario_done"}
        /\ expression = "Concat(\"" \o a \o "\", \"" \o b \o "\")"
        => result = Ok(ResStr(a \o b))

\* With literals of alphanumerics only, and numbers and identifiers, the
\* scenario gives the concatenation of the stringified arguments.
ConcatOfAlphanumerics ==
    /\ pc \in {"scenario_failed", "scenario_done"}
       /\ expression = "Concat(\"Hello\", \"world\")" => result = Ok(ResStr("Helloworld"))
    /\ pc \in {"scenario_failed", "scenario_done"} /\ values = ("id" :> "v")
       /\ expression = "Concatenate(id,1)" => result = Ok(ResStr("v1"))

(***************************************************************************)
(* Claims on Spec: the value an evaluation returns.                         *)
(***************************************************************************)
\* The variants of Expr that are final values.
FinalKinds == {"Str", "Boolean", "Num"}

\* C15: no evaluation returns an Array as its result: the value the evaluator
\* returns for the top-level node is a final value or an error, also when the
\* top-level node is an array literal or a function that returns its argument.
C15_NoArrayResult ==
    pc = "done" /\ IsOk(result) => result.v.e \in FinalKinds

\* What an evaluation returns is never a call or an identifier left
\* unevaluated.
ResultIsEvaluated ==
    pc = "done" /\ IsOk(result) => result.v.e \in FinalKinds \cup {"Array"}

(***************************************************************************)
(* lib.rs: the C ABI.  SpecFfi: ffi_parse_expr on an expression text, then  *)
(* ffi_exec_expr on the handle it returned.                                 *)
(***************************************************************************)
\* The C string an entry point returns.
CStringResult(s) == [k |-> "CString", s |-> s]

\* expr_to_string: the rendering of the value of an evaluation.
expr_to_string(x) ==
    CASE x.e = "Str" -> x.s
      [] x.e = "Boolean" -> IF x.b THEN "true" ELSE "false"
      [] x.e = "Num" -> ToString(x.n)
      [] x.e = "Array" -> "Array"
      [] x.e = "Identifier" -> "[" \o x.id \o "]"
      [] x.e = "FunctionCall" -> "FunctionCall"
      [] x.e = "PreparedFunctionCall" -> "PreparedFunctionCall"

\* Result::unwrap: the value of an Ok; a panic on an Err, which leaves an
\* extern "C" function by aborting the process.
unwrap(r) ==
    IF IsOk(r) THEN r
    ELSE Panic("called Result::unwrap() on an Err value: " \o r.err)

\* ffi_parse_expr: parse_expr(r_str).unwrap(), then prepare_expr against the
\* registry; the handle is the boxed tree.
ffi_parse_expr(text) ==
    Bind(unwrap(parse_expr(text)), LAMBDA tree : Ok(prepare_expr(tree, funcs)))

\* ffi_exec_expr: exec_expr(RefOrValue::Ref(expr), &values).unwrap(), then
\* expr_to_string and CString::new.
ffi_exec_expr(handle, vals) ==
    Bind(unwrap(exec_expr(handle, vals)), LAMBDA evaluated :
        CStringResult(expr_to_string(evaluated)))

\* The most tokens of the expression text handed to ffi_parse_expr.
MaxFfiTokens == 3

FfiTokens == {"my", "first(", "nope(", ")", "1", "\""}

InitFfi ==
    /\ pc = "ffi_ready"
    /\ expression \in Words(FfiTokens, MaxFfiTokens)
    /\ values \in IdentifierMaps
    /\ parsed = NoExpr
    /\ expr = NoExpr
    /\ like_pattern = ""
    /\ dotnet_format = ""
    /\ result = NoResult
    /\ strong = NoStrong
    /\ local = NoLocal

FfiParseExpr ==
    /\ pc = "ffi_ready"
    /\ IF IsOk(ffi_parse_expr(expression))
       THEN /\ pc' = "ffi_handle"
            /\ expr' = ffi_parse_expr(expression).v
            /\ result' = result
       ELSE /\ pc' = "ffi_aborted"
            /\ expr' = expr
            /\ result' = ffi_parse_expr(expression)
    /\ UNCHANGED <<like_pattern, dotnet_format, expression, parsed, values, strong, local>>

FfiExecExpr ==
    /\ pc = "ffi_handle"
    /\ result' = ffi_exec_expr(expr, values)
    /\ pc' = IF IsPanic(result') THEN "ffi_aborted" ELSE "ffi_returned"
    /\ UNCHANGED <<like_pattern, dotnet_format, expression, parsed, expr, values, strong, local>>

NextFfi == FfiParseExpr \/ FfiExecExpr

SpecFfi == InitFfi /\ [][NextFfi]_vars

\* C16: ffi_exec_expr, called on a valid handle whose evaluation fails
\* (missing identifier, unbound function, an error returned by a function),
\* returns the error message as its result string and does not abort the
\* process; only ffi_parse_expr aborts, and only on a parse failure.
C16_ExecuteReturnsMessage ==
    /\ pc \in {"ffi_returned", "ffi_aborted"} /\ expr # NoExpr
       /\ IsErr(exec_expr(expr, values)) =>
            /\ pc = "ffi_returned"
            /\ result = CStringResult(exec_expr(expr, values).err)
    /\ pc = "ffi_aborted" => expr = NoExpr /\ IsErr(parse_expr(expression))

\* An evaluation that succeeds returns the rendering of its value, and a
\* parse failure aborts in ffi_parse_expr.
ExecuteReturnsValue ==
    /\ pc \in {"ffi_returned", "ffi_aborted"} /\ expr # NoExpr
       /\ IsOk(exec_expr(expr, values)) =>
            /\ pc = "ffi_returned"
            /\ result = CStringResult(expr_to_string(exec_expr(expr, values).v))
    /\ pc # "ffi_ready" /\ IsErr(parse_expr(expression)) =>
            pc = "ffi_aborted" /\ expr = NoExpr

(***************************************************************************)
(* SpecThreads: two threads of the host call ffi_exec_expr on one handle at *)
(* the same time, each with its own identifier map.  The tree holds an      *)
(* Rc<FunctionImpl> in every PreparedFunctionCall; Expr::clone and the drop *)
(* of a cloned Expr read and write the strong count of that Rc without      *)
(* synchronisation, as a load and a store.  pc, values and result are here  *)
(* functions of the thread.                                                 *)
(***************************************************************************)
Threads == {1, 2}

\* The most calls nested in the expression text of the handle.
MaxNest == 2

\* The most calls of ffi_exec_expr by one thread.
MaxRuns == 2

\* The Rc's of a tree, in the order Expr::clone clones them and drop drops
\* them: the fields of PreparedFunctionCall(name, parameters, fnc) in order.
RECURSIVE RcsOf(_)
RECURSIVE RcsOfAll(_, _)
RcsOfAll(xs, i) == IF i > Len(xs) THEN <<>> ELSE RcsOf(xs[i]) \o RcsOfAll(xs, i + 1)

RcsOf(x) ==
    IF x.e = "PreparedFunctionCall" THEN RcsOfAll(x.params, 1) \o <<x.fnc>>
    ELSE IF x.e = "Array" THEN RcsOfAll(x.a, 1)
    ELSE <<>>

\* The strong count of each callable once ffi_parse_expr has dropped funcs:
\* one for each node of the tree that holds the Rc.
RcCount(x) ==
    [fnc \in {funcs[name] : name \in DOMAIN funcs} |->
        Cardinality({i \in 1..Len(RcsOf(x)) : RcsOf(x)[i] = fnc})]

RECURSIVE NestedCalls(_)
NestedCalls(n) ==
    IF n = 0 THEN {"my", "1", "nope(1)"}
    ELSE NestedCalls(n - 1)
         \cup {"first(" \o inner \o ")" : inner \in NestedCalls(n - 1)}
         \cup {"first(" \o inner \o ",my)" : inner \in NestedCalls(n - 1)}

Frame(cur, owned, todo, reg, runs) ==
    [cur |-> cur, owned |-> owned, todo |-> todo, reg |-> reg, runs |-> runs]

InitThreads ==
    /\ expression \in NestedCalls(MaxNest)
    /\ expr = ffi_parse_expr(expression).v
    /\ strong = RcCount(expr)
    /\ pc = [t \in Threads |-> "idle"]
    /\ values \in [Threads -> {NoValues, ("my" :> "1")}]
    /\ result = [t \in Threads |-> NoResult]
    /\ local = [t \in Threads |-> Frame(NoExpr, <<>>, <<>>, 0, 0)]
    /\ parsed = NoExpr
    /\ like_pattern = ""
    /\ dotnet_format = ""

\* Nothing is dropped at the end of an evaluation.
Unwinding_leaking(owned) == "done"

\* What is left to do once the evaluation has its result: the owned values of
\* the frames are dropped.
Unwinding(owned) == IF owned = <<>> THEN "done" ELSE "drop_load"

\* ffi_exec_expr: exec_expr(RefOrValue::Ref(expr), &values)
ThreadStart(t) ==
    /\ pc[t] \in {"idle", "done"}
    /\ local[t].runs < MaxRuns
    /\ pc' = [pc EXCEPT ![t] = "exec"]
    /\ local' = [local EXCEPT ![t] = Frame(expr, <<>>, <<>>, 0, local[t].runs + 1)]
    /\ UNCHANGED <<like_pattern, dotnet_format, expression, parsed, expr, values, result, strong>>

\* A use of an Rc whose allocation was freed: the behaviour is undefined, the
\* call ends with the result it has when running alone or with a crash.
UseAfterFree(t) ==
    /\ result' \in {[result EXCEPT ![t] = exec_expr(expr, values[t])],
                    [result EXCEPT ![t] = Panic("use after free")]}
    /\ pc' = [pc EXCEPT ![t] = "done"]
    /\ local' = [local EXCEPT ![t] = Frame(NoExpr, <<>>, <<>>, 0, local[t].runs)]
    /\ UNCHANGED <<like_pattern, dotnet_format, expression, parsed, expr, values, strong>>

\* exec_expr returns: Ok(ref_or_value), the value of an identifier, or an
\* error.
ThreadReturn(t, r) ==
    /\ result' = [result EXCEPT ![t] = r]
    /\ pc' = [pc EXCEPT ![t] = Unwinding(local[t].owned)]
    /\ UNCHANGED <<like_pattern, dotnet_format, expression, parsed, expr, values, strong, local>>

\* exec_expr evaluating the node again in place of what the callable returned.
ThreadCall_same_node(t, call_result) ==
    IF ~IsOk(call_result) THEN ThreadReturn(t, call_result)
    ELSE UNCHANGED <<pc, like_pattern, dotnet_format, expression, parsed,
                     expr, values, result, strong, local>>

\* exec_expr on PreparedFunctionCall: fnc(parameters)?, then
\* exec_expr(RefOrValue::Value(call_result), values).  The value the callable
\* returns is a clone: its Rc's are still to be counted.
ThreadCall(t, call_result) ==
    IF ~IsOk(call_result) THEN ThreadReturn(t, call_result)
    ELSE /\ local' = [local EXCEPT ![t] =
                Frame(call_result.v, RcsOf(call_result.v) \o local[t].owned,
                      RcsOf(call_result.v), 0, local[t].runs)]
         /\ pc' = [pc EXCEPT ![t] =
                IF RcsOf(call_result.v) = <<>> THEN "exec" ELSE "clone_load"]
         /\ UNCHANGED <<like_pattern, dotnet_format, expression, parsed,
                        expr, values, result, strong>>

\* One call of exec_expr, on the tree of the handle or on the value a
\* callable returned.
ThreadExec(t) ==
    /\ pc[t] = "exec"
    /\ IF local[t].cur.e # "PreparedFunctionCall"
       THEN ThreadReturn(t, exec_expr(local[t].cur, values[t]))
       ELSE IF strong[local[t].cur.fnc] = 0 THEN UseAfterFree(t)
       ELSE ThreadCall(t, call_closure(local[t].cur.fnc, local[t].cur.params))

\* Rc::clone, first half: the strong count is read.
CloneLoad(t) ==
    /\ pc[t] = "clone_load"
    /\ IF strong[Head(local[t].todo)] = 0 THEN UseAfterFree(t)
       ELSE /\ local' = [local EXCEPT ![t].reg = strong[Head(local[t].todo)]]
            /\ pc' = [pc EXCEPT ![t] = "clone_store"]
            /\ UNCHANGED <<like_pattern, dotnet_format, expression, parsed,
                           expr, values, result, strong>>

\* Rc::clone, second half: the count read plus one is written.
CloneStore(t) ==
    /\ pc[t] = "clone_store"
    /\ strong' = [strong EXCEPT ![Head(local[t].todo)] = local[t].reg + 1]
    /\ local' = [local EXCEPT ![t].todo = Tail(local[t].todo)]
    /\ pc' = [pc EXCEPT ![t] = IF Len(local[t].todo) = 1 THEN "exec" ELSE "clone_load"]
    /\ UNCHANGED <<like_pattern, dotnet_format, expression, parsed, expr, values, result>>

\* Drop of an Rc, first half: the strong count is read.
DropLoad(t) ==
    /\ pc[t] = "drop_load"
    /\ IF strong[Head(local[t].owned)] = 0 THEN UseAfterFree(t)
       ELSE /\ local' = [local EXCEPT ![t].reg = strong[Head(local[t].owned)]]
            /\ pc' = [pc EXCEPT ![t] = "drop_store"]
            /\ UNCHANGED <<like_pattern, dotnet_format, expression, parsed,
                           expr, values, result, strong>>

\* Drop of an Rc, second half: the count read minus one is written; at 0 the
\* callable is dropped and its allocation freed.
DropStore(t) ==
    /\ pc[t] = "drop_store"
    /\ strong' = [strong EXCEPT ![Head(local[t].owned)] = local[t].reg - 1]
    /\ local' = [local EXCEPT ![t].owned = Tail(local[t].owned)]
    /\ pc' = [pc EXCEPT ![t] = Unwinding(Tail(local[t].owned))]
    /\ UNCHANGED <<like_pattern, dotnet_format, expression, parsed, expr, values, result>>

NextThreads ==
    \E t \in Threads :
        \/ ThreadStart(t)
        \/ ThreadExec(t)
        \/ CloneLoad(t)
        \/ CloneStore(t)
        \/ DropLoad(t)
        \/ DropStore(t)

SpecThreads == InitThreads /\ [][NextThreads]_vars

\* C17: two threads that evaluate the same bound expression at the same
\* time, each with its own identifier map, write no shared state: during
\* evaluation the reference count of a callable shared by the nodes of the
\* tree is not modified (also when a function returns a copy of one of its
\* arguments), so every interleaving gives each thread the result it gets
\* when running alone.
C17_NoSharedWrites ==
    /\ strong = RcCount(expr)
    /\ \A t \in Threads :
          pc[t] = "done" => result[t] = exec_expr(expr, values[t])

\* While one thread alone evaluates the handle, each of its calls gives the
\* result of exec_expr and leaves the strong counts as it found them.
OneThreadAtATime ==
    \A t \in Threads :
        pc[t] = "done" /\ (\A u \in Threads \ {t} : pc[u] = "idle") =>
            /\ result[t] = exec_expr(expr, values[t])
            /\ strong = RcCount(expr)

\* Two threads lose an update of the strong count: both have finished, and
\* the count of the Rc of first is no longer the number of nodes that hold it.
LostUpdate ==
    /\ \A t \in Threads : pc[t] = "done" /\ local[t].owned = <<>>
    /\ strong # RcCount(expr)

\* A thread ends with a result it does not get when running alone.
WrongResult ==
    \E t \in Threads : pc[t] = "done" /\ result[t] # exec_expr(expr, values[t])

(***************************************************************************)
(* The date functions, each called once on dates written as RFC 3339 text.  *)
(***************************************************************************)
MaxMonths == 13

MaxFlags == 6

Dates ==
    {NaiveDateTime(2020, 2, 29, 0, 0, 0), NaiveDateTime(2019, 2, 28, 0, 0, 0),
     NaiveDateTime(2020, 1, 31, 10, 20, 30), NaiveDateTime(2021, 3, 29, 0, 0, 0),
     NaiveDateTime(2020, 12, 15, 23, 59, 59)}

\* The text a caller writes for a date: 2020-02-29T00:00:00Z.
Rfc3339(d) ==
    Pad4(d.year) \o "-" \o Pad2(d.month) \o "-" \o Pad2(d.day) \o "T" \o Pad2(d.hour)
    \o ":" \o Pad2(d.minute) \o ":" \o Pad2(d.second) \o "Z"

DateCompareNames ==
    {"DateEquals", "DateNotEquals", "DateLower", "DateLowerOrEquals", "DateGreater",
     "DateGreaterOrEquals"}

FlagLists == UNION {[1..n -> {Boolean(TRUE), Boolean(FALSE)}] : n \in 0..MaxFlags}

DateCalls ==
    {BoundCall("DateAddMonths", <<Str(Rfc3339(d)), Num(n)>>) :
        d \in Dates, n \in (0 - MaxMonths)..MaxMonths}
    \cup {BoundCall(name, <<Str(Rfc3339(left)), Str(Rfc3339(right))>> \o flags) :
            name \in DateCompareNames, left \in Dates, right \in Dates, flags \in FlagLists}

InitDate ==
    /\ pc = "func_ready"
    /\ expr \in DateCalls
    /\ values = NoValues
    /\ like_pattern = ""
    /\ dotnet_format = ""
    /\ expression = ""
    /\ parsed = NoExpr
    /\ result = NoResult
    /\ strong = NoStrong
    /\ local = NoLocal

SpecDate == InitDate /\ [][NextFunc]_vars

\* The date a parameter of the call was written from.
DateOfParam(i) == CHOOSE d \in Dates : Str(Rfc3339(d)) = Get(expr.params, i)

\* The month lying n months from the month of d, counted in months since
\* year 0: year * 12 + month - 1.
MonthIndex(d) == d.year * 12 + d.month - 1

ShiftedBy(d, n) ==
    [d EXCEPT !.year = (MonthIndex(d) + n) \div 12, !.month = ((MonthIndex(d) + n) % 12) + 1]

\* C18: DateAddMonths(d, n) returns the date-time with the day and time of d
\* in the month lying n months away whenever that day exists there, and fails
\* with an error message only when it does not.
C18_AddMonths ==
    (pc = "func_done" /\ expr.name = "DateAddMonths") =>
        IF IsDateTime(ShiftedBy(DateOfParam(0), Get(expr.params, 1).n))
        THEN result.r = Ok(ResDate(ShiftedBy(DateOfParam(0), Get(expr.params, 1).n)))
        ELSE IsErr(result.r)

\* What holds of the code: the same, for every date but a 29 February whose
\* year, shifted alone, is not a leap year.
AddMonthsBut29February ==
    (/\ pc = "func_done"
     /\ expr.name = "DateAddMonths"
     /\ IsDateTime([DateOfParam(0) EXCEPT
                       !.year = ShiftedBy(DateOfParam(0), Get(expr.params, 1).n).year])) =>
        IF IsDateTime(ShiftedBy(DateOfParam(0), Get(expr.params, 1).n))
        THEN result.r = Ok(ResDate(ShiftedBy(DateOfParam(0), Get(expr.params, 1).n)))
        ELSE IsErr(result.r)

\* 29 February 2020 plus 13 months is 29 March 2021, and the call fails.
AddMonthsRefused ==
    /\ pc = "func_done"
    /\ expr = BoundCall("DateAddMonths", <<Str("2020-02-29T00:00:00Z"), Num(13)>>)
    /\ result.r = Err("Couldn't add 1 years to the date 2020-02-29 00:00:00")

\* The flag of a date comparison at position i of 1 .. 6, an omitted flag
\* counting as false.
FlagAt(i) == IF i + 2 <= Len(expr.params) THEN expr.params[i + 2].b ELSE FALSE

\* d with every flagged component set to 1.
Flagged(d) ==
    [year |-> IF FlagAt(1) THEN 1 ELSE d.year,
     month |-> IF FlagAt(2) THEN 1 ELSE d.month,
     day |-> IF FlagAt(3) THEN 1 ELSE d.day,
     hour |-> IF FlagAt(4) THEN 1 ELSE d.hour,
     minute |-> IF FlagAt(5) THEN 1 ELSE d.minute,
     second |-> IF FlagAt(6) THEN 1 ELSE d.second]

\* The plain comparison each of the six functions is named after.
PlainComparison(name, left, right) ==
    CASE name = "DateEquals" -> left = right
      [] name = "DateNotEquals" -> left # right
      [] name = "DateLower" -> DateLess(left, right)
      [] name = "DateLowerOrEquals" -> DateLess(left, right) \/ left = right
      [] name = "DateGreater" -> DateLess(right, left)
      [] name = "DateGreaterOrEquals" -> DateLess(right, left) \/ left = right

\* C19: a date comparison with zero to six trailing flags returns the plain
\* comparison of the two operands after each flagged component has been set
\* to 1 on both of them, whenever the operands so changed are dates.
C19_FlaggedComparison ==
    (/\ pc = "func_done"
     /\ expr.name \in DateCompareNames
     /\ IsDateTime(Flagged(DateOfParam(0)))
     /\ IsDateTime(Flagged(DateOfParam(1)))) =>
        result.r = Ok(ResBoolean(PlainComparison(expr.name, Flagged(DateOfParam(0)),
                                                 Flagged(DateOfParam(1)))))

\* What holds of the code: the same, as long as no operand is a 29 February
\* compared with ignore_year.
FlaggedComparisonBut29February ==
    (/\ pc = "func_done"
     /\ expr.name \in DateCompareNames
     /\ FlagAt(1) => \A i \in {0, 1} : IsDateTime([DateOfParam(i) EXCEPT !.year = 1])) =>
        result.r = Ok(ResBoolean(PlainComparison(expr.name, Flagged(DateOfParam(0)),
                                                 Flagged(DateOfParam(1)))))

\* 29 February 2020 compared with itself, year and day ignored: both operands
\* become 1 February of year 1, and the call panics.
FlaggedComparisonPanics ==
    /\ pc = "func_done"
    /\ expr = BoundCall("DateEquals", <<Str("2020-02-29T00:00:00Z"), Str("2020-02-29T00:00:00Z"),
                                        Boolean(TRUE), Boolean(FALSE), Boolean(TRUE)>>)
    /\ IsPanic(result.r)

(***************************************************************************)
(* functions.rs: dotnet_format_to_strptime_format.                          *)
(***************************************************************************)
\* The pairs with the rule of d put before the rule of dd.
REPLACEMENTS_short_first ==
    << <<"dddd", "%A">>, <<"ddd", "%a">>, <<"d", "%e">>, <<"dd", "%DAY">>, <<"%DAY", "%d">>,
       <<"fffffff", "%7f">>, <<"ffffff", "%6f">>, <<"fffff", "%5f">>, <<"ffff", "%4f">>,
       <<"fff", "%3f">>, <<"ff", "%2f">>,
       <<"FFFFFFF", "%7f">>, <<"FFFFFF", "%6f">>, <<"FFFFF", "%5f">>, <<"FFFF", "%4f">>,
       <<"FFF", "%3f">>, <<"FF", "%2f">>, <<"F", "%1f">>,
       <<"hh", "%I">>, <<"h", "%l">>, <<"HH", "%_OURS">>, <<"H", "%k">>, <<"%_OURS", "%H">>,
       <<"mm", "%_INUTE">>, <<"m", "%_INUTE">>,
       <<"MMMM", "%B">>, <<"MMM", "%b">>, <<"MM", "%m">>, <<"M", "%m">>,
       <<"%_INUTE", "%M">>, <<"%_INUTE", "%M">>,
       <<"ss", "%S">>, <<"s", "%S">>, <<"tt", "%P">>, <<"t", "%P">>,
       <<"yyyyy", "%Y">>, <<"yyyy", "%Y">>, <<"yyy", "%Y">>, <<"yy", "%YEAR">>, <<"y", "%y">>,
       <<"%YEAR", "%y">>,
       <<"zzz", "%:_one">>, <<"zz", "%_one">>, <<"z", "%z">>, <<"%_one", "%z">>,
       <<"%:_one", "%:z">> >>

\* The (Regex, replacement) pairs of REPLACEMENTS, in their order. Every regex
\* is a text without metacharacters and no replacement holds a $.
REPLACEMENTS ==
    << <<"dddd", "%A">>, <<"ddd", "%a">>, <<"dd", "%DAY">>, <<"d", "%e">>, <<"%DAY", "%d">>,
       <<"fffffff", "%7f">>, <<"ffffff", "%6f">>, <<"fffff", "%5f">>, <<"ffff", "%4f">>,
       <<"fff", "%3f">>, <<"ff", "%2f">>,
       <<"FFFFFFF", "%7f">>, <<"FFFFFF", "%6f">>, <<"FFFFF", "%5f">>, <<"FFFF", "%4f">>,
       <<"FFF", "%3f">>, <<"FF", "%2f">>, <<"F", "%1f">>,
       <<"hh", "%I">>, <<"h", "%l">>, <<"HH", "%_OURS">>, <<"H", "%k">>, <<"%_OURS", "%H">>,
       <<"mm", "%_INUTE">>, <<"m", "%_INUTE">>,
       <<"MMMM", "%B">>, <<"MMM", "%b">>, <<"MM", "%m">>, <<"M", "%m">>,
       <<"%_INUTE", "%M">>, <<"%_INUTE", "%M">>,
       <<"ss", "%S">>, <<"s", "%S">>, <<"tt", "%P">>, <<"t", "%P">>,
       <<"yyyyy", "%Y">>, <<"yyyy", "%Y">>, <<"yyy", "%Y">>, <<"yy", "%YEAR">>, <<"y", "%y">>,
       <<"%YEAR", "%y">>,
       <<"zzz", "%:_one">>, <<"zz", "%_one">>, <<"z", "%z">>, <<"%_one", "%z">>,
       <<"%:_one", "%:z">> >>

\* Regex::find: the position of the leftmost match of the text re in text at
\* or after position at, 0 when there is none.
RECURSIVE regex_find(_, _, _)
regex_find(re, text, at) ==
    IF at + Len(re) - 1 > Len(text) THEN 0
    ELSE IF Slice(text, at, at + Len(re) - 1) = re THEN at
    ELSE regex_find(re, text, at + 1)

\* Regex::replace: the leftmost match replaced, the text itself without one.
regex_replace_at(re, text, rep, at) ==
    IF at = 0 THEN text ELSE Take(text, at - 1) \o rep \o Drop(text, at - 1 + Len(re))

regex_replace(re, text, rep) == regex_replace_at(re, text, rep, regex_find(re, text, 1))

\* REPLACEMENTS.iter().fold(dotnet_format.to_string(), |acc, replacer|
\*     replacer.0.replace(&acc, replacer.1).to_string()), from the i-th pair on.
\* (An empty acc stays empty under every pair.)
RECURSIVE replacements_fold(_, _)
replacements_fold(acc, i) ==
    IF i > Len(REPLACEMENTS) \/ acc = "" THEN acc
    ELSE replacements_fold(regex_replace(REPLACEMENTS[i][1], acc, REPLACEMENTS[i][2]), i + 1)

dotnet_format_to_strptime_format(format) == replacements_fold(format, 1)

(***************************************************************************)
(* The translator called once on a format of one or two tokens.             *)
(***************************************************************************)
\* The longest text between two tokens. Two tokens of different letters are
\* also written without a separator (yyyyMM); two of one letter are not, being
\* one run of that letter.
MaxSep == 1

SepChars == {"-", " ", ":", "."}

Separators == {""} \cup UNION {{Join(s, "") : s \in [1..n -> SepChars]} : n \in 1..MaxSep}

\* The .NET tokens and what each stands for in strftime.
TranslationTable ==
    ("yyyyy" :> "%Y") @@ ("yyyy" :> "%Y") @@ ("yyy" :> "%Y") @@ ("yy" :> "%y") @@ ("y" :> "%y")
    @@ ("MMMM" :> "%B") @@ ("MMM" :> "%b") @@ ("MM" :> "%m") @@ ("M" :> "%m")
    @@ ("dddd" :> "%A") @@ ("ddd" :> "%a") @@ ("dd" :> "%d") @@ ("d" :> "%e")
    @@ ("HH" :> "%H") @@ ("H" :> "%k") @@ ("hh" :> "%I") @@ ("h" :> "%l")
    @@ ("mm" :> "%M") @@ ("m" :> "%M") @@ ("ss" :> "%S") @@ ("s" :> "%S")
    @@ ("fffffff" :> "%7f") @@ ("ffffff" :> "%6f") @@ ("fffff" :> "%5f") @@ ("ffff" :> "%4f")
    @@ ("fff" :> "%3f") @@ ("ff" :> "%2f")
    @@ ("FFFFFFF" :> "%7f") @@ ("FFFFFF" :> "%6f") @@ ("FFFFF" :> "%5f") @@ ("FFFF" :> "%4f")
    @@ ("FFF" :> "%3f") @@ ("FF" :> "%2f") @@ ("F" :> "%1f")
    @@ ("tt" :> "%P") @@ ("t" :> "%P")
    @@ ("zzz" :> "%:z") @@ ("zz" :> "%z") @@ ("z" :> "%z")

DotnetTokens == DOMAIN TranslationTable

DotnetFormats ==
    DotnetTokens
    \cup {left \o sep \o right : left \in DotnetTokens, sep \in Separators \ {""},
                                 right \in DotnetTokens}
    \cup {pair[1] \o pair[2] :
            pair \in {p \in DotnetTokens \X DotnetTokens : Char(p[1], 1) # Char(p[2], 1)}}
    \cup {"yyyy-MM-dd HH:mm:ss.fff", "dd/dd", "HH:mm HH", "yyyy yyyy"}

InitFormat ==
    /\ pc = "format_ready"
    /\ dotnet_format \in DotnetFormats
    /\ like_pattern = ""
    /\ expression = ""
    /\ parsed = NoExpr
    /\ expr = NoExpr
    /\ values = NoValues
    /\ result = NoResult
    /\ strong = NoStrong
    /\ local = NoLocal

DotnetFormatToStrptimeFormat ==
    /\ pc = "format_ready"
    /\ pc' = "format_done"
    /\ result' = dotnet_format_to_strptime_format(dotnet_format)
    /\ UNCHANGED <<like_pattern, dotnet_format, expression, parsed, expr, values, strong, local>>

NextFormat == DotnetFormatToStrptimeFormat

SpecFormat == InitFormat /\ [][NextFormat]_vars

\* The lengths of the tokens of the table the text starts with.
TokenLengths(text) == {n \in 1..Len(text) : Take(text, n) \in DotnetTokens}

\* The longest token of the table the text starts with, "" when it starts
\* with none.
LongestToken(text) ==
    IF TokenLengths(text) = {} THEN ""
    ELSE Take(text, CHOOSE n \in TokenLengths(text) : \A m \in TokenLengths(text) : m <= n)

\* The tokens of a format, read from the left, the longest token first.
RECURSIVE TokensOf(_)
TokensOf(text) ==
    IF text = "" THEN <<>>
    ELSE IF LongestToken(text) = "" THEN TokensOf(Drop(text, 1))
    ELSE <<LongestToken(text)>> \o TokensOf(Drop(text, Len(LongestToken(text))))

\* The format with each of its tokens replaced as the table says and every
\* other character kept.
RECURSIVE Translated(_)
Translated(text) ==
    IF text = "" THEN ""
    ELSE IF LongestToken(text) = "" THEN Char(text, 1) \o Translated(Drop(text, 1))
    ELSE TranslationTable[LongestToken(text)] \o Translated(Drop(text, Len(LongestToken(text))))

UsedOnce(text) ==
    \A i, j \in 1..Len(TokensOf(text)) : TokensOf(text)[i] = TokensOf(text)[j] => i = j

SecondUseKept ==
    /\ pc = "format_done"
    /\ dotnet_format = "dd-dd"
    /\ result = "%d-%ed"

C30_EveryOccurrence ==
    pc = "format_done" => result = Translated(dotnet_format)

\* The second HH of "HH:mm HH" is left to the rule of H, one letter at a time.
RepeatedTokenKept ==
    /\ pc = "format_done"
    /\ dotnet_format = "HH:mm HH"
    /\ Translated(dotnet_format) = "%H:%M %H"
    /\ result = "%H:%M %kH"

\* The nodes of a tree: the tree, the nodes of the parameters of a call and
\* of the elements of an array literal.
RECURSIVE NodesOf(_)
NodesOf(x) ==
    {x} \cup (IF x.e \in {"FunctionCall", "PreparedFunctionCall"}
              THEN UNION {NodesOf(x.params[i]) : i \in 1..Len(x.params)}
              ELSE IF x.e = "Array" THEN UNION {NodesOf(x.a[i]) : i \in 1..Len(x.a)}
              ELSE {})

\* The tree with every bound call written back as the call it was parsed as.
RECURSIVE Unbound(_)
Unbound(x) ==
    IF x.e \in {"FunctionCall", "PreparedFunctionCall"}
    THEN FunctionCall(x.name, [i \in 1..Len(x.params) |-> Unbound(x.params[i])])
    ELSE IF x.e = "Array" THEN Array([i \in 1..Len(x.a) |-> Unbound(x.a[i])])
    ELSE x

\* C24: after prepare_expr no FunctionCall whose name is a key of funcs is
\* left anywhere in the tree, under a call of unknown name and in an array
\* literal included, and the tree is otherwise the parsed one.
C24_NoKnownCallLeft ==
    pc \in {"prepared", "done"} =>
        /\ \A n \in NodesOf(expr) : ~(n.e = "FunctionCall" /\ n.name \in DOMAIN funcs)
        /\ Unbound(expr) = Unbound(parsed)

\* The nodes prepare_expr reaches: the tree, and the parameters of a call it
\* binds.
RECURSIVE ReachedByBinder(_)
ReachedByBinder(x) ==
    {x} \cup (IF x.e = "PreparedFunctionCall"
              THEN UNION {ReachedByBinder(x.params[i]) : i \in 1..Len(x.params)}
              ELSE {})

\* What holds of the code: the calls of known name are bound along the calls
\* of known name, and the shape of the tree is kept.
KnownCallsBoundAlongKnownCalls ==
    pc \in {"prepared", "done"} =>
        /\ \A n \in ReachedByBinder(expr) : ~(n.e = "FunctionCall" /\ n.name \in DOMAIN funcs)
        /\ Unbound(expr) = Unbound(parsed)

\* nope(first(1)) and [first(1)] come out of the binder as they went in.
KnownCallLeftUnderUnknown ==
    /\ pc = "prepared"
    /\ parsed = FunctionCall("nope", <<FunctionCall("first", <<Num(1)>>)>>)
    /\ expr = parsed

KnownCallLeftInArray ==
    /\ pc = "prepared"
    /\ parsed = Array(<<FunctionCall("first", <<Num(1)>>)>>)
    /\ expr = parsed

\* C25: every PreparedFunctionCall of the tree prepare_expr returns holds the
\* callable funcs gives for its name, so two nodes of one name hold the same
\* callable, and the evaluation leaves the tree, callables included, as it is.
C25_BoundCallable ==
    /\ [](pc \in {"prepared", "done"} =>
            \A n \in NodesOf(expr) :
                n.e = "PreparedFunctionCall" =>
                    n.name \in DOMAIN funcs /\ n.fnc = funcs[n.name])
    /\ [][pc = "prepared" => expr' = expr]_vars

\* first(first(my), 2) bound and evaluated: two nodes of the name first.
C25_Witness ==
    /\ pc = "done"
    /\ parsed = FunctionCall("first", <<FunctionCall("first", <<Identifier("my")>>), Num(2)>>)
    /\ expr = PreparedFunctionCall("first",
                  <<PreparedFunctionCall("first", <<Identifier("my")>>, "fn_first"), Num(2)>>,
                  "fn_first")
    /\ IsOk(result)

\* Concat and Concatenate, bound against get_functions, hold one function.
AliasesHoldOneFunction ==
    (pc \in {"scenario_prepared", "scenario_done"} /\ expr.e = "PreparedFunctionCall") =>
        expr.fnc = get_functions[expr.name] /\ expr.fnc = "f_concat"

(***************************************************************************)
(* One caller that parses once and executes many times: ffi_parse_expr,     *)
(* then the evaluations of the tree of the handle that calls of             *)
(* ffi_exec_expr make, one after the other, each with the identifier map    *)
(* the caller chooses.                                                      *)
(***************************************************************************)
Caller == CHOOSE t \in Threads : \A u \in Threads : t <= u

\* The expression of the test execute_one_expression, and the nested calls.
HandleTexts == NestedCalls(MaxNest) \cup {"first(first(first(my,2,3),2,3),2,3)"}

HandleMaps == {NoValues, ("my" :> "1"), ("my" :> "value")}

InitHandle ==
    /\ expression \in HandleTexts
    /\ expr = ffi_parse_expr(expression).v
    /\ strong = RcCount(expr)
    /\ pc = [t \in Threads |-> "idle"]
    /\ values \in {[t \in Threads |-> m] : m \in HandleMaps}
    /\ result = [t \in Threads |-> NoResult]
    /\ local = [t \in Threads |-> Frame(NoExpr, <<>>, <<>>, 0, 0)]
    /\ parsed = NoExpr
    /\ like_pattern = ""
    /\ dotnet_format = ""

\* Between two calls the caller, done with the string of the last call,
\* builds the identifier_values of the next one.
SetIdentifierValues ==
    /\ pc[Caller] \in {"idle", "done"}
    /\ \E m \in HandleMaps \ {values[Caller]} : values' = [values EXCEPT ![Caller] = m]
    /\ pc' = [pc EXCEPT ![Caller] = "idle"]
    /\ result' = [result EXCEPT ![Caller] = NoResult]
    /\ UNCHANGED <<like_pattern, dotnet_format, expression, parsed, expr, strong, local>>

\* The steps of one evaluation.
EvaluationStep ==
    \/ ThreadExec(Caller)
    \/ CloneLoad(Caller)
    \/ CloneStore(Caller)
    \/ DropLoad(Caller)
    \/ DropStore(Caller)

NextHandle == SetIdentifierValues \/ ThreadStart(Caller) \/ EvaluationStep

SpecHandle == InitHandle /\ [][NextHandle]_vars

\* A call that has started runs on: exec_expr is an ordinary function call.
SpecHandleFair == SpecHandle /\ WF_vars(EvaluationStep)

StrictSubTerms(x) == NodesOf(x) \ {x}

IsLiteral(x) == x.e \in {"Str", "Boolean", "Num"}

\* C27: an evaluation that has started ends, with a value or an error: every
\* evaluation exec_expr makes of what a callable returned is on a strict
\* sub-term of the node it was evaluating or on a literal.
C27_EvaluationEnds ==
    /\ (pc[Caller] = "exec") ~> (pc[Caller] = "done")
    /\ [](pc[Caller] = "done" => IsOk(result[Caller]) \/ IsErr(result[Caller]))
    /\ [][(pc[Caller] = "exec" /\ pc'[Caller] # "done"
           /\ local'[Caller].cur # local[Caller].cur) =>
              \/ local'[Caller].cur \in StrictSubTerms(local[Caller].cur)
              \/ IsLiteral(local'[Caller].cur)]_vars

\* The expression of the test execute_one_expression, evaluated to the value
\* of my.
C27_Witness ==
    /\ expression = "first(first(first(my,2,3),2,3),2,3)"
    /\ values[Caller] = ("my" :> "value")
    /\ pc[Caller] = "done"
    /\ result[Caller] = Ok(Str("value"))

\* C28: on two dates and any flags, a date comparison returns a boolean: no
\* combination of flags makes it panic or fail.
C28_FlagsNeverFail ==
    (pc = "func_done" /\ expr.name \in DateCompareNames) =>
        IsOk(result.r) /\ result.r.v.t = "Boolean"

\* 29 February 2020 is no date of year 1: with ignore_year alone the left
\* operand cannot be built, and the call panics.
IgnoreYearPanics ==
    /\ pc = "func_done"
    /\ expr = BoundCall("DateLower", <<Str("2020-02-29T00:00:00Z"), Str("2019-02-28T00:00:00Z"),
                                       Boolean(TRUE)>>)
    /\ ~IsDateTime([DateOfParam(0) EXCEPT !.year = 1])
    /\ IsPanic(result.r)

\* What holds of the code: a boolean, unless ignore_year meets a 29 February.
FlagsFailOn29FebruaryOnly ==
    (/\ pc = "func_done"
     /\ expr.name \in DateCompareNames
     /\ ~(IsOk(result.r) /\ result.r.v.t = "Boolean")) =>
        /\ IsPanic(result.r)
        /\ FlagAt(1)
        /\ \E i \in {0, 1} : DateOfParam(i).month = 2 /\ DateOfParam(i).day = 29

(***************************************************************************)
(* SpecText: one call of Left, Right or Mid on every string of at most      *)
(* MaxText characters over a, b and the two-byte é, in a build of either    *)
(* profile.                                                                 *)
(***************************************************************************)
MaxText == 3

MaxSize == 4

TextNames == {"Left", "Right", "Mid"}

Texts == Words({"a", "b", "é"}, MaxText)

Sizes == (0 - 1)..MaxSize

Starts == (0 - 1)..(MaxSize + 1)

TextCalls ==
    {BoundCall(name, <<Str(s), Num(k)>>) : name \in {"Left", "Right"}, s \in Texts, k \in Sizes}
    \cup {BoundCall("Mid", <<Str(s), Num(start), Num(k)>>) :
              s \in Texts, start \in Starts, k \in Sizes}

InitText ==
    /\ pc = "func_ready"
    /\ expr \in TextCalls
    /\ values = NoValues
    /\ like_pattern = ""
    /\ dotnet_format = ""
    /\ expression = ""
    /\ parsed = NoExpr
    /\ result = NoResult
    /\ strong = NoStrong
    /\ local = NoLocal

\* The evaluator's step on a bound call, in a build of one of the profiles.
CallFunctionBuilt ==
    /\ pc = "func_ready"
    /\ pc' = "func_done"
    /\ \E profile \in Profiles :
           result' = Built(call_function(expr.fnc, expr.params, values), profile)
    /\ UNCHANGED <<like_pattern, dotnet_format, expression, parsed, expr, values, strong, local>>

NextBuilt == CallFunctionBuilt

SpecText == InitText /\ [][NextBuilt]_vars

TextOfCall == Get(expr.params, 0).s

SizeOfCall == Max(Get(expr.params, Len(expr.params) - 1).n, 0)

FirstChars(s, k) == SubSeq(s, 1, Min(k, Len(s)))

LastChars(s, k) == SubSeq(s, Len(s) - Min(k, Len(s)) + 1, Len(s))

\* The at most k characters of s from the position start clamped to [1, Len(s)].
MidChars(s, start, k) ==
    IF s = "" THEN ""
    ELSE SubSeq(s, Min(Max(start, 1), Len(s)),
                Min(Min(Max(start, 1), Len(s)) + k - 1, Len(s)))

CharacterSlice ==
    CASE expr.name = "Left" -> FirstChars(TextOfCall, SizeOfCall)
      [] expr.name = "Right" -> LastChars(TextOfCall, SizeOfCall)
      [] expr.name = "Mid" -> MidChars(TextOfCall, Get(expr.params, 1).n, SizeOfCall)

\* C21: Left(s, k) is the first min(max(k, 0), len(s)) characters of s,
\* Right(s, k) the last that many and Mid(s, start, k) the at most max(k, 0)
\* characters from the 1-based position start clamped to [1, len(s)], len
\* counting characters, for every string, the empty one and those with
\* multi-byte characters included; none of the three fails.
C21_CharacterSlices ==
    (pc = "func_done" /\ expr.name \in TextNames) => result.r = Ok(ResStr(CharacterSlice))

\* What the code does give: the slices by characters where the string is not
\* empty and each of its characters is one byte, and for Left and Right on
\* the empty string too.
SlicesOfOneByteCharacters ==
    (/\ pc = "func_done"
     /\ expr.name \in TextNames
     /\ str_len(TextOfCall) = Len(TextOfCall)
     /\ (expr.name = "Mid" => TextOfCall # "" \/ SizeOfCall = 0))
        => result.r = Ok(ResStr(CharacterSlice))

\* Left("é", 1) cuts the character in two.
LeftSplitsCharacter ==
    /\ pc = "func_done"
    /\ expr = BoundCall("Left", <<Str("é"), Num(1)>>)
    /\ IsPanic(result.r)

\* Left("éa", 2) returns the one character the two bytes hold.
LeftCountsBytes ==
    /\ pc = "func_done"
    /\ expr = BoundCall("Left", <<Str("éa"), Num(2)>>)
    /\ result.r = Ok(ResStr("é"))

\* Mid("", 1, 1) fails in a build of either profile.
MidOfEmptyPanics ==
    /\ pc = "func_done"
    /\ expr = BoundCall("Mid", <<Str(""), Num(1), Num(1)>>)
    /\ result.r = Panic("attempt to add with overflow")

(***************************************************************************)
(* SpecNumber: one call of Fixed or Round, in a build of either profile.    *)
(* The numbers are given as texts; none lies halfway between two numbers of *)
(* the decimals asked for.                                                  *)
(***************************************************************************)
MaxDecimals == 3

MaxDigits == 12

IntTexts == {"0", "1", "999", "1234", "12345"}

FracTexts == {"", ".4", ".6", ".04", ".96", ".996", ".999", ".5678", ".0001"}

NumberTexts == {sign \o int \o frac : sign \in {"", "-"}, int \in IntTexts, frac \in FracTexts}

SmallNumberTexts == {sign \o int \o frac : sign \in {"", "-"}, int \in {"0", "1"}, frac \in FracTexts}

FixedCalls ==
    {BoundCall("Fixed", <<Str(t), Num(d), Boolean(b)>>) :
         t \in NumberTexts, d \in 0..MaxDecimals, b \in BOOLEAN}
    \cup {BoundCall("Fixed", <<Str(t), Num(d)>>) : t \in {"1234.5678"}, d \in (0 - 1)..MaxDecimals}
    \cup {BoundCall("Fixed", <<n>>) : n \in {Str("1234.5678"), Num(1234)}}

RoundCalls ==
    {BoundCall("Round", <<Str(t), Num(d)>>) : t \in SmallNumberTexts, d \in 0..MaxDigits}
    \cup {BoundCall("Round", <<Num(n), Num(d)>>) : n \in {1}, d \in (0 - 1)..MaxDigits}

InitNumber ==
    /\ pc = "func_ready"
    /\ expr \in FixedCalls \cup RoundCalls
    /\ values = NoValues
    /\ like_pattern = ""
    /\ dotnet_format = ""
    /\ expression = ""
    /\ parsed = NoExpr
    /\ result = NoResult
    /\ strong = NoStrong
    /\ local = NoLocal

SpecNumber == InitNumber /\ [][NextBuilt]_vars

\* The number the first parameter of the call holds.
NumberOfCall == result_to_num(Evaluated(0).v).v

DecimalsOfCall == IF Len(expr.params) >= 2 THEN Max(Get(expr.params, 1).n, 0) ELSE 2

RECURSIVE WithoutCommas(_)
WithoutCommas(s) ==
    IF s = "" THEN ""
    ELSE (IF Char(s, 1) = "," THEN "" ELSE Char(s, 1)) \o WithoutCommas(Drop(s, 1))

\* Fixed(n, decimals, true) for the n and the decimals of the call.
FixedNoCommas ==
    call_function("f_fixed", <<Get(expr.params, 0), Get(expr.params, 1), Boolean(TRUE)>>, values).r

WithCommasCall ==
    /\ pc = "func_done"
    /\ expr.name = "Fixed"
    /\ Len(expr.params) = 3
    /\ Get(expr.params, 2) = Boolean(FALSE)

\* C22: Fixed(n, decimals, false) is Fixed(n, decimals, true) with en-US
\* thousands separators in the integer part only: without its commas the
\* first is the second, for every n and every decimals >= 0, a fraction that
\* rounds up to the next integer and a negative n between -1 and 0 included;
\* Fixed(1234.5678, 2, false) is "1,234.57".
C22_CommasOnly ==
    WithCommasCall =>
        /\ IsOk(result.r)
        /\ result.r.v.t = "Str"
        /\ Ok(ResStr(WithoutCommas(result.r.v.s))) = FixedNoCommas
        /\ (Get(expr.params, 0) = Str("1234.5678") /\ DecimalsOfCall = 2
                => result.r.v.s = "1,234.57")

\* Where the two agree: the number is not strictly between -1 and 0, and its
\* fraction, rounded to the decimals asked for, stays below 1 -- which with
\* no decimals means that it rounds to 0.
FractionStays ==
    /\ Rounded(Abs(RustRem(NumberOfCall, Unit)), DecimalsOfCall) < 10 ^ DecimalsOfCall
    /\ NumberOfCall >= 0 \/ NumberOfCall <= 0 - Unit

CommasOnlyWhereFractionStays ==
    (WithCommasCall /\ FractionStays) =>
        /\ IsOk(result.r)
        /\ Ok(ResStr(WithoutCommas(result.r.v.s))) = FixedNoCommas

\* Fixed(1.999, 2, false) is "1.00" where Fixed(1.999, 2, true) is "2.00".
FractionRoundsUp ==
    /\ WithCommasCall
    /\ Get(expr.params, 0) = Str("1.999")
    /\ DecimalsOfCall = 2
    /\ result.r = Ok(ResStr("1.00"))
    /\ FixedNoCommas = Ok(ResStr("2.00"))

\* Fixed(-0.6, 1, false) is "0.6": the sign is lost.
SignLost ==
    /\ WithCommasCall
    /\ Get(expr.params, 0) = Str("-0.6")
    /\ DecimalsOfCall = 1
    /\ result.r = Ok(ResStr("0.6"))
    /\ FixedNoCommas = Ok(ResStr("-0.6"))

\* Fixed(1234.5678, 0, false) is "1,234" where Fixed(1234.5678, 0, true) is "1235".
NoDecimalsTruncates ==
    /\ WithCommasCall
    /\ Get(expr.params, 0) = Str("1234.5678")
    /\ DecimalsOfCall = 0
    /\ result.r = Ok(ResStr("1,234"))
    /\ FixedNoCommas = Ok(ResStr("1235"))

\* The example of the specification.
FixedExample ==
    /\ WithCommasCall
    /\ Get(expr.params, 0) = Str("1234.5678")
    /\ DecimalsOfCall = 2
    /\ result.r = Ok(ResStr("1,234.57"))

DigitsOfCall == Max(Get(expr.params, 1).n, 0)

\* The nearest integer to a / d for a >= 0, a half going away from zero.
HalfAway(a, d) == (2 * a + d) \div (2 * d)

\* |n| rounded half away from zero to the digits of the call, in units of
\* 10^-DecimalPlaces.
RoundedMagnitude ==
    IF DigitsOfCall >= DecimalPlaces THEN Abs(NumberOfCall)
    ELSE HalfAway(Abs(NumberOfCall), 10 ^ (DecimalPlaces - DigitsOfCall))
         * 10 ^ (DecimalPlaces - DigitsOfCall)

\* The quotient q.rounded / q.mult_div is the number of the given sign and
\* magnitude.
QuotientIs(q, neg, magnitude) ==
    /\ big_times(q.rounded, Unit) = big_times(q.mult_div, magnitude)
    /\ magnitude # 0 => q.neg = neg

RoundCall == pc = "func_done" /\ expr.name = "Round"

\* C29: in Round(n, digits) the scale factor 10^digits is computed exactly
\* for every digits >= 0, without overflowing or wrapping its 32-bit unsigned
\* integer: the function returns n rounded half away from zero to that many
\* decimals, or an error value; it never crashes and never rounds with a
\* wrapped scale.
C29_ExactScale ==
    RoundCall =>
        \/ IsErr(result.r)
        \/ /\ IsOk(result.r)
           /\ result.r.v.t = "Num"
           /\ result.r.v.n.mult_div = big_pow10(DigitsOfCall)
           /\ QuotientIs(result.r.v.n, NumberOfCall < 0, RoundedMagnitude)

\* Below ten digits the scale fits and the function rounds as said.
ExactScaleBelowTenDigits ==
    (RoundCall /\ DigitsOfCall < 10) =>
        /\ IsOk(result.r)
        /\ result.r.v.n.mult_div = big_pow10(DigitsOfCall)
        /\ QuotientIs(result.r.v.n, NumberOfCall < 0, RoundedMagnitude)

\* From ten digits on a build with overflow checks panics, outside of
\* catch_unwind.
RoundPanics ==
    /\ RoundCall
    /\ expr = BoundCall("Round", <<Str("0.4"), Num(10)>>)
    /\ result.r = Panic("attempt to multiply with overflow")

\* A build without them rounds 0.0001 with the scale 10^10 mod 2^32 =
\* 1410065408, to 141007 / 1410065408.
RoundWrapped ==
    /\ RoundCall
    /\ expr = BoundCall("Round", <<Str("0.0001"), Num(10)>>)
    /\ IsOk(result.r)
    /\ result.r.v.n.mult_div = big_from(1410065408)
    /\ result.r.v.n.rounded = big_from(141007)
    /\ ~QuotientIs(result.r.v.n, FALSE, RoundedMagnitude)

(***************************************************************************)
(* SpecCoerce: one call whose only parameter that can fail is coerced to a  *)
(* boolean, a date or a number; the other parameters are valid.             *)
(***************************************************************************)
ValidDate == "2020-02-28T00:00:00Z"

\* The parameters around the coerced one, and the type it is coerced to.
Coercion(name, before, after, type) ==
    [name |-> name, before |-> before, after |-> after, type |-> type]

Coercions ==
    {Coercion(name, <<>>, <<>>, "boolean") : name \in {"And", "Or", "Not"}}
    \cup {Coercion("Iif", <<>>, <<Str("a"), Str("b")>>, "boolean")}
    \cup {Coercion(name, <<>>, <<Str(ValidDate)>>, "date") : name \in DateCompareNames}
    \cup {Coercion(name, <<Str(ValidDate)>>, <<>>, "date") : name \in DateCompareNames}
    \cup {Coercion("DateAddMonths", <<>>, <<Num(1)>>, "date"),
          Coercion("DateAddMonths", <<Str(ValidDate)>>, <<>>, "number")}
    \cup {Coercion(name, <<Str("abc")>>, <<>>, "number") : name \in {"Left", "Right"}}
    \cup {Coercion("Mid", <<Str("abc")>>, <<Num(1)>>, "number"),
          Coercion("Mid", <<Str("abc"), Num(1)>>, <<>>, "number"),
          Coercion("Fixed", <<>>, <<>>, "number"),
          Coercion("Fixed", <<Num(1)>>, <<>>, "number"),
          Coercion("Round", <<>>, <<Num(1)>>, "number"),
          Coercion("Round", <<Num(1)>>, <<>>, "number")}

\* The values coerced: texts, numbers, booleans, Null and a date.
CoercedAtoms ==
    {Str(s) : s \in {"", "x", "1", "2", " true ", "no", "1.5", ValidDate, "2020-02-30T00:00:00Z",
                     "2020-02-28"}}
    \cup {Num(0), Num(1), Boolean(TRUE), Boolean(FALSE), NullExpr,
          BoundCall("DateAddMonths", <<Str(ValidDate), Num(0)>>)}

CoerceCalls ==
    {BoundCall(c.name, c.before \o <<x>> \o c.after) : c \in Coercions, x \in CoercedAtoms}

InitCoerce ==
    /\ pc = "func_ready"
    /\ expr \in CoerceCalls
    /\ values = NoValues
    /\ like_pattern = ""
    /\ dotnet_format = ""
    /\ expression = ""
    /\ parsed = NoExpr
    /\ result = NoResult
    /\ strong = NoStrong
    /\ local = NoLocal

SpecCoerce == InitCoerce /\ [][NextFunc]_vars

\* The coercion the call was built from.
CoercionOfCall ==
    CHOOSE c \in Coercions :
        /\ c.name = expr.name
        /\ Len(expr.params) = Len(c.before) + 1 + Len(c.after)
        /\ SubSeq(expr.params, 1, Len(c.before)) = c.before
        /\ SubSeq(expr.params, Len(c.before) + 2, Len(expr.params)) = c.after

\* The evaluated value of the coerced parameter.
CoercedValue == Evaluated(Len(CoercionOfCall.before)).v

NotOfType(v, type) == Err("'" \o v \o "' is not a " \o type)

\* C23: when a value cannot be coerced to the requested type the coercion
\* fails with the message '<v>' is not a <type>, <v> being the stringified
\* evaluated value and <type> number, boolean or date.
C23_CoercionMessage ==
    (pc = "func_done" /\ ~IsOk(result.r)) =>
        result.r = NotOfType(ExprResultToString(CoercedValue), CoercionOfCall.type)

\* What holds of the code: the coercions to a number fail with that message.
NumberCoercionMessage ==
    (pc = "func_done" /\ ~IsOk(result.r) /\ CoercionOfCall.type = "number") =>
        result.r = NotOfType(ExprResultToString(CoercedValue), "number")

\* A date function given a text that is no date-time fails with the message
\* of the parser.
DateCoercionMessage ==
    (pc = "func_done" /\ ~IsOk(result.r) /\ CoercionOfCall.type = "date") =>
        result.r \in {Err("input contains invalid characters"), Err("input is out of range")}

\* A boolean coercion prints the expression, not its value.
BooleanCoercionMessage ==
    (pc = "func_done" /\ ~IsOk(result.r) /\ CoercionOfCall.type = "boolean") =>
        /\ CoercedValue.t \in {"Null", "Date"}
        /\ result.r = NotOfType(ExprDisplay(Get(expr.params, 0)), "boolean")

NotADate ==
    /\ pc = "func_done"
    /\ expr = BoundCall("DateEquals", <<Str("x"), Str(ValidDate)>>)
    /\ result.r = Err("input contains invalid characters")

NullNotABoolean ==
    /\ pc = "func_done"
    /\ expr = BoundCall("Not", <<NullExpr>>)
    /\ result.r = Err("'PreparedFunctionCall' is not a boolean")

NotANumber ==
    /\ pc = "func_done"
    /\ expr = BoundCall("Round", <<Str("x"), Num(1)>>)
    /\ result.r = Err("'x' is not a number")
====
